---- MODULE Spec2Model ----
(***************************************************************************)
(* Model of the MealPlanning repository: the SQLite tables (stores,        *)
(* pantry, recipes with their recipe_ingredients, meal_plan, staples,      *)
(* known_prices), the core operations that write them, and                 *)
(* core/shopping_list.py's generate / format_shopping_list.                *)
(*                                                                         *)
(* Representation                                                          *)
(*  - text is a sequence of character codes (ASCII), so that lower(),      *)
(*    strip(), title() and SQL LOWER() are computed, not assumed;          *)
(*  - a nullable column is None (<<>>) or Some(v) (<<v>>);                 *)
(*  - REAL quantities and prices are integers counting thousandths, so     *)
(*    round(x, 2) is a real operation (to a multiple of 10 thousandths);   *)
(*  - dates are day numbers (ISO date strings compare like them).          *)
(***************************************************************************)
EXTENDS Integers, Sequences, FiniteSets, TLC

(***************************************************************************)
(* Bounds of the model.                                                    *)
(***************************************************************************)
MaxDay == 2
MaxMeals == 2
MaxRecipes == 2
MaxPantry == 2
MaxStaples == 2

(***************************************************************************)
(* Nullable values and Python truthiness.                                  *)
(***************************************************************************)
None == <<>>
Some(v) == <<v>>
IsNone(o) == o = <<>>
Val(o) == o[1]

\* Python `x or y` on nullable text: x when x is neither None nor "".
TextTruthy(o) == o # None /\ Val(o) # <<>>
\* Python `x or y` on nullable numbers: x when x is neither None nor 0.
NumTruthy(o) == o # None /\ Val(o) # 0

(***************************************************************************)
(* Text: str.lower(), str.strip(), str.title(), SQL LOWER().               *)
(***************************************************************************)
Whitespace == {9, 10, 11, 12, 13, 32}
\* Python folds the case of every letter (here: ASCII and Latin-1 code
\* points); SQLite's built-in LOWER folds the ASCII letters only.
IsAsciiUpper(c) == c >= 65 /\ c <= 90
IsUpper(c) == IsAsciiUpper(c) \/ (c >= 192 /\ c <= 222 /\ c # 215)
IsLowerCh(c) == (c >= 97 /\ c <= 122) \/ (c >= 224 /\ c <= 254 /\ c # 247)
IsCased(c) == IsUpper(c) \/ IsLowerCh(c)
LowerCh(c) == IF IsUpper(c) THEN c + 32 ELSE c
UpperCh(c) == IF IsLowerCh(c) THEN c - 32 ELSE c

RECURSIVE Lower(_)
Lower(s) == IF s = <<>> THEN <<>> ELSE <<LowerCh(Head(s))>> \o Lower(Tail(s))

RECURSIVE LStrip(_)
LStrip(s) == IF s # <<>> /\ Head(s) \in Whitespace THEN LStrip(Tail(s)) ELSE s

RECURSIVE RStrip(_)
RStrip(s) ==
    IF s # <<>> /\ s[Len(s)] \in Whitespace
    THEN RStrip(SubSeq(s, 1, Len(s) - 1))
    ELSE s

Strip(s) == RStrip(LStrip(s))

\* str.title(): a cased character is upper-cased when it follows an uncased
\* character (or starts the string) and lower-cased otherwise.
RECURSIVE TitleFrom(_, _)
TitleFrom(s, after_cased) ==
    IF s = <<>> THEN <<>>
    ELSE <<IF after_cased THEN LowerCh(Head(s)) ELSE UpperCh(Head(s))>>
         \o TitleFrom(Tail(s), IsCased(Head(s)))

Title(s) == TitleFrom(s, FALSE)

\* The normalisation generate() applies in Python: `.lower().strip()`.
Norm(s) == Strip(Lower(s))
\* SQL LOWER(x): folds the case of ASCII letters, does not trim.
RECURSIVE SqlLower(_)
SqlLower(s) ==
    IF s = <<>> THEN <<>>
    ELSE <<IF IsAsciiUpper(Head(s)) THEN Head(s) + 32 ELSE Head(s)>> \o SqlLower(Tail(s))

(***************************************************************************)
(* Numbers: Python round(x, 2) on values counted in thousandths.           *)
(***************************************************************************)
\* Nearest integer to n / d (d > 0), an exact half going to the even one.
RoundHalfEven(n, d) ==
    LET f == n \div d
        r == n % d
    IN  IF 2 * r < d THEN f
        ELSE IF 2 * r > d THEN f + 1
        ELSE IF f % 2 = 0 THEN f ELSE f + 1

\* round(q, 2) for q in thousandths: a multiple of 10 thousandths.
Round2(q) == 10 * RoundHalfEven(q, 10)
\* round(unit_price * buy_qty, 2): the product of two thousandths counts
\* millionths; the result is again in thousandths.
RoundCost(unit_price, buy_qty) == 10 * RoundHalfEven(unit_price * buy_qty, 10000)

(***************************************************************************)
(* Input values the operations are called with.                            *)
(***************************************************************************)
t_ab == <<97, 98>>            \* "ab"
t_AB == <<65, 66>>            \* "AB"
t_Ab == <<65, 98>>            \* "Ab"
t_sAb == <<32, 65, 98>>       \* " Ab"
t_abs == <<97, 98, 32>>       \* "ab "
t_cd == <<99, 100>>           \* "cd"
t_CD == <<67, 68>>            \* "CD"
t_Cds == <<67, 100, 32>>      \* "Cd "
t_ef == <<101, 102>>          \* "ef"
t_efs == <<101, 102, 32>>     \* "ef "
t_g == <<103>>                \* "g"
t_Gs == <<71, 32>>            \* "G "
t_empty == <<>>               \* ""
t_Eacute == <<201>>          \* "É"
t_eacute == <<233>>          \* "é"

s_Breakfast == <<66, 114, 101, 97, 107, 102, 97, 115, 116>>
s_Lunch == <<76, 117, 110, 99, 104>>
s_Dinner == <<68, 105, 110, 110, 101, 114>>
s_Snack == <<83, 110, 97, 99, 107>>
MEAL_SLOTS == <<s_Breakfast, s_Lunch, s_Dinner, s_Snack>>
\* The slots the bounded runs plan meals in.
SlotsUsed == {s_Lunch, s_Dinner}
Days == 1..MaxDay

Ingredient(n, q, u, p, sn, sq, su) ==
    [name |-> n, quantity |-> q, unit |-> u, estimated_price |-> p,
     shopping_name |-> sn, shopping_qty |-> sq, shopping_unit |-> su]

\* Recipe A: raw fields only; two spellings of one key; a missing unit.
RecipeA ==
    << Ingredient(t_ab, Some(1500), Some(t_g), None, None, None, None),
       Ingredient(t_AB, Some(1000), Some(t_Gs), Some(300), None, None, None),
       Ingredient(t_cd, Some(2000), None, None, None, None, None) >>
\* Recipe B: normalized shopping fields, some of them missing, empty or 0.
RecipeB ==
    << Ingredient(t_ab, Some(2000), Some(t_g), Some(250),
                  Some(t_Cds), Some(0), None),
       Ingredient(t_cd, Some(1000), None, Some(990),
                  Some(t_sAb), Some(4), Some(t_Gs)),
       Ingredient(t_ef, None, Some(t_g), Some(120),
                  None, None, Some(t_empty)) >>
RecipeChoices == {RecipeA, RecipeB}

\* (recipe_id, servings, notes) arguments of set_meal.
MealArg(r, s, n) == [recipe_id |-> r, servings |-> s, notes |-> n]
SetMealArgs ==
    { MealArg(None, 1, Some("Leftovers")),
      MealArg(Some(1), 2, None),
      MealArg(Some(2), 1, Some("guests")) }

StoreNames == {"Aldi"}

PantryItem(n, q, p, st) ==
    [name |-> n, quantity |-> q, estimated_price |-> p, preferred_store_id |-> st]
PantryChoices ==
    { PantryItem(t_ab, Some(5000), None, Some(1)),
      PantryItem(t_sAb, Some(1000), Some(200), Some(1)),
      PantryItem(t_CD, None, Some(1004), None) }

Staple(n, st, need) == [name |-> n, preferred_store_id |-> st, need_to_buy |-> need]
StapleChoices ==
    { Staple(t_Ab, None, need) : need \in BOOLEAN } \cup
    { Staple(t_abs, None, need) : need \in BOOLEAN } \cup
    { Staple(t_ef, Some(1), need) : need \in BOOLEAN } \cup
    { Staple(t_CD, Some(1), TRUE) }

KnownArg(n, p) == [item_name |-> n, unit_price |-> p]
KnownPriceArgs == { KnownArg(t_AB, 2500), KnownArg(t_efs, 1004) }
\* The names and prices of the price book requests.
PriceBookArgs ==
    { KnownArg(n, p) : n \in {t_AB, t_abs, t_cd, t_Eacute, t_eacute}, p \in {2500, 1004} }
\* bulk_upsert(items): lists of one or two items.
PriceBookLists ==
    { <<a>> : a \in PriceBookArgs } \cup { <<a, b>> : a, b \in PriceBookArgs }

(***************************************************************************)
(* State.                                                                  *)
(***************************************************************************)
VARIABLES
    stores,        \* stores table: id -> name, for the ids that exist
    pantry,        \* pantry table: rows in rowid order
    recipes,       \* recipes + recipe_ingredients: id -> ingredient rows
    meal_plan,     \* meal_plan table: rows in (date, meal_slot, rowid) order
    staples,       \* staples table: rows in rowid order
    known_prices,  \* known_prices table: rows in rowid order
    autoinc,       \* AUTOINCREMENT counters of stores and recipes
    ret,           \* what the request being served returned
    prev,          \* what the same request returned just before, when it was repeated
    cache,         \* settings row 'saved_shopping_list': the text stored, or no row
    saved,         \* the arguments of the save_cached_list call that wrote the slot
    gen,           \* a generate call served step by step: its position and locals
    inflight       \* the set_meal and cache calls being served on other connections

tables == <<stores, pantry, recipes, meal_plan, staples, known_prices, autoinc>>
cache_vars == <<cache, saved>>
vars == <<stores, pantry, recipes, meal_plan, staples, known_prices, autoinc, ret, prev,
          cache, saved, gen, inflight>>

\* No shopping-list request has returned since the last write.
NoCall == [op |-> "none"]
\* No generate call is being served step by step.
Idle == [pc |-> "idle"]
\* The connections that serve requests at the same time.
Procs == {1, 2}
\* No call is being served on any of them; no save has been issued.
NoCalls == [calls |-> [p \in Procs |-> Idle], issued |-> {}]

(***************************************************************************)
(* Ordering of text (code point by code point), as Python's sort and       *)
(* SQLite's ORDER BY on TEXT compare it.                                   *)
(***************************************************************************)
RECURSIVE TextLess(_, _)
TextLess(a, b) ==
    IF b = <<>> THEN FALSE
    ELSE IF a = <<>> THEN TRUE
    ELSE IF Head(a) # Head(b) THEN Head(a) < Head(b)
    ELSE TextLess(Tail(a), Tail(b))

(***************************************************************************)
(* Dictionaries (Python dicts keep insertion order): sequences of          *)
(* [k, v] pairs with distinct keys.                                        *)
(***************************************************************************)
DictHas(d, k) == \E i \in 1..Len(d) : d[i].k = k
DictGet(d, k) ==
    IF DictHas(d, k)
    THEN Some(d[CHOOSE i \in 1..Len(d) : d[i].k = k].v)
    ELSE None
\* d[k] = v: overwrite in place, or append a new key.
RECURSIVE DictSet(_, _, _)
DictSet(d, k, v) ==
    IF d = <<>> THEN << [k |-> k, v |-> v] >>
    ELSE IF Head(d).k = k THEN << [k |-> k, v |-> v] >> \o Tail(d)
    ELSE <<Head(d)>> \o DictSet(Tail(d), k, v)

(***************************************************************************)
(* core/meal_plan.py: get_meals_in_range.                                  *)
(***************************************************************************)
\* ORDER BY mp.date, mp.meal_slot; rows of one (date, slot) stay in rowid order.
EntryBefore(a, b) ==
    \/ a.date < b.date
    \/ a.date = b.date /\ TextLess(a.meal_slot, b.meal_slot)

RECURSIVE InsertEntry(_, _)
InsertEntry(sorted, e) ==
    IF sorted = <<>> THEN <<e>>
    ELSE IF EntryBefore(e, Head(sorted)) THEN <<e>> \o sorted
    ELSE <<Head(sorted)>> \o InsertEntry(Tail(sorted), e)

\* The first n rows, ordered.
RECURSIVE OrderPrefix(_, _)
OrderPrefix(rows, n) ==
    IF n = 0 THEN <<>> ELSE InsertEntry(OrderPrefix(rows, n - 1), rows[n])

OrderEntries(rows) == OrderPrefix(rows, Len(rows))

\* Variant: the range excludes its start date.
InRange_exclusive(row, start, end) == row.date > start /\ row.date <= end
InRange(row, start, end) == row.date >= start /\ row.date <= end

\* Variant: the query has no WHERE clause.
get_meals_in_range_all(mp, start, end) == OrderEntries(mp)
get_meals_in_range(mp, start, end) ==
    LET Hit(row) == InRange(row, start, end)
    IN  OrderEntries(SelectSeq(mp, Hit))

(***************************************************************************)
(* core/shopping_list.py: generate, the aggregation loop (lines 36-59).    *)
(***************************************************************************)
\* (ing["shopping_name"] or ing["name"])
EffName(ing) ==
    IF TextTruthy(ing.shopping_name) THEN ing.shopping_name ELSE Some(ing.name)
\* (ing["shopping_unit"] or ing["unit"] or "")
EffUnit(ing) ==
    IF TextTruthy(ing.shopping_unit) THEN ing.shopping_unit
    ELSE IF TextTruthy(ing.unit) THEN ing.unit
    ELSE Some(t_empty)
\* Variant: (ing["shopping_qty"] or ing["quantity"] or 0)
EffQty_truthy(ing) ==
    IF NumTruthy(ing.shopping_qty) THEN ing.shopping_qty
    ELSE IF NumTruthy(ing.quantity) THEN ing.quantity
    ELSE Some(0)
\* ing["shopping_qty"] if ing["shopping_qty"] is not None else (ing["quantity"] or 0)
EffQty(ing) ==
    IF ing.shopping_qty # None THEN ing.shopping_qty
    ELSE IF NumTruthy(ing.quantity) THEN ing.quantity
    ELSE Some(0)
\* .lower() of None is an AttributeError, None * servings a TypeError.
IngRaises(ing) == IsNone(EffName(ing)) \/ IsNone(EffUnit(ing)) \/ IsNone(EffQty(ing))

\* key = (s_name, s_unit)
IngKey(ing) == <<Norm(Val(EffName(ing))), Norm(Val(EffUnit(ing)))>>

\* `if not entry.recipe_id: continue`: None and 0 are both falsy.
HasRecipe(entry) == entry.recipe_id # None /\ Val(entry.recipe_id) # 0

\* SELECT ... FROM recipe_ingredients WHERE recipe_id = ?
IngredientsOf(rcp, recipe_id) ==
    IF recipe_id \in DOMAIN rcp THEN rcp[recipe_id] ELSE <<>>

\* The (ingredient, servings) pairs the inner loop visits for one entry.
RECURSIVE EntryVisits(_, _)
EntryVisits(ings, servings) ==
    IF ings = <<>> THEN <<>>
    ELSE << [ing |-> Head(ings), servings |-> servings] >>
         \o EntryVisits(Tail(ings), servings)

\* Variant: an entry without a recipe ends the loop (break for continue).
RECURSIVE Visits_break(_, _)
Visits_break(rcp, entries) ==
    IF entries = <<>> THEN <<>>
    ELSE IF HasRecipe(Head(entries))
         THEN EntryVisits(IngredientsOf(rcp, Val(Head(entries).recipe_id)),
                          Head(entries).servings)
              \o Visits_break(rcp, Tail(entries))
         ELSE <<>>
\* The (ingredient, servings) pairs the two nested loops visit, in order.
RECURSIVE Visits(_, _)
Visits(rcp, entries) ==
    IF entries = <<>> THEN <<>>
    ELSE (IF HasRecipe(Head(entries))
          THEN EntryVisits(IngredientsOf(rcp, Val(Head(entries).recipe_id)),
                           Head(entries).servings)
          ELSE <<>>)
         \o Visits(rcp, Tail(entries))

\* required[key] += s_qty * entry.servings, on a defaultdict(float).
RECURSIVE Accumulate(_, _)
Accumulate(required, visits) ==
    IF visits = <<>> THEN required
    ELSE LET v == Head(visits)
             key == IngKey(v.ing)
             qty == Val(EffQty(v.ing)) * v.servings
             old == IF DictHas(required, key) THEN Val(DictGet(required, key)) ELSE 0
         IN  Accumulate(DictSet(required, key, old + qty), Tail(visits))

\* if ing["estimated_price"] is not None and key not in ingredient_prices
\* Variant: a later priced ingredient overwrites the recorded price.
RECURSIVE RecordPrices_last(_, _)
RecordPrices_last(prices, visits) ==
    IF visits = <<>> THEN prices
    ELSE LET v == Head(visits)
             key == IngKey(v.ing)
         IN  RecordPrices_last(
                 IF v.ing.estimated_price # None
                 THEN DictSet(prices, key, Val(v.ing.estimated_price))
                 ELSE prices,
                 Tail(visits))
\* if ing["estimated_price"] is not None and key not in ingredient_prices
RECURSIVE RecordPrices(_, _)
RecordPrices(prices, visits) ==
    IF visits = <<>> THEN prices
    ELSE LET v == Head(visits)
             key == IngKey(v.ing)
         IN  RecordPrices(
                 IF v.ing.estimated_price # None /\ ~DictHas(prices, key)
                 THEN DictSet(prices, key, Val(v.ing.estimated_price))
                 ELSE prices,
                 Tail(visits))

(***************************************************************************)
(* generate, the lookups built from the pantry, staples and known_prices   *)
(* tables (lines 65-89).                                                   *)
(***************************************************************************)
\* {row["name"].lower().strip(): (row["quantity"] or 0) for row in pantry_rows}
RECURSIVE PantryQtyDict(_, _)
PantryQtyDict(d, rows) ==
    IF rows = <<>> THEN d
    ELSE LET row == Head(rows)
         IN  PantryQtyDict(
                 DictSet(d, Norm(row.name),
                         IF NumTruthy(row.quantity) THEN Val(row.quantity) ELSE 0),
                 Tail(rows))

\* Variant: the staple names are taken as stored.
StapleNames_raw(stp) ==
    { stp[i].name : i \in { j \in 1..Len(stp) : ~stp[j].need_to_buy } }
\* {row["name"].lower().strip() for row in staple_rows}, WHERE need_to_buy = 0
StapleNames(stp) ==
    { Norm(stp[i].name) : i \in { j \in 1..Len(stp) : ~stp[j].need_to_buy } }

\* pantry_prices[row["name"].lower().strip()] = row["estimated_price"], when not None
RECURSIVE PantryPriceDict(_, _)
PantryPriceDict(d, rows) ==
    IF rows = <<>> THEN d
    ELSE LET row == Head(rows)
         IN  PantryPriceDict(
                 IF row.estimated_price # None
                 THEN DictSet(d, Norm(row.name), Val(row.estimated_price))
                 ELSE d,
                 Tail(rows))

\* {row["item_name"].lower().strip(): row["unit_price"] for row in known_price_rows}
RECURSIVE KnownPriceDict(_, _)
KnownPriceDict(d, rows) ==
    IF rows = <<>> THEN d
    ELSE LET row == Head(rows)
         IN  KnownPriceDict(DictSet(d, Norm(row.item_name), row.unit_price), Tail(rows))

\* The SELECT of lines 107-113: the first pantry row (rowid order) whose
\* LOWER(name) equals the key name, joined to its store; None when no row
\* matches, Some(None) when the row has no store.
StoreRow(db, ing_name) ==
    LET hits == { i \in 1..Len(db.pantry) : SqlLower(db.pantry[i].name) = ing_name }
    IN  IF hits = {} THEN None
        ELSE LET i == CHOOSE h \in hits : \A o \in hits : h <= o
                 sid == db.pantry[i].preferred_store_id
             IN  IF sid # None /\ Val(sid) \in DOMAIN db.stores
                 THEN Some(Some(db.stores[Val(sid)]))
                 ELSE Some(None)

NoStoreAssigned == "No Store Assigned"
StaplesBucket == "Staples"

\* store_row["store_name"] if store_row and store_row["store_name"] else "No Store Assigned"
StoreNameFor(db, ing_name) ==
    LET store_row == StoreRow(db, ing_name)
    IN  IF store_row # None /\ Val(store_row) # None /\ Val(Val(store_row)) # ""
        THEN Val(Val(store_row))
        ELSE NoStoreAssigned

\* Variant: the recipe price is consulted before the known price.
UnitPrice_recipe_first(known, ingredient_prices, pantry_prices, ing_name, unit) ==
    IF DictGet(ingredient_prices, <<ing_name, unit>>) # None
    THEN DictGet(ingredient_prices, <<ing_name, unit>>)
    ELSE IF DictGet(known, ing_name) # None THEN DictGet(known, ing_name)
    ELSE DictGet(pantry_prices, ing_name)
\* Price resolution (lines 117-121): known price > recipe price > pantry price.
UnitPrice(known, ingredient_prices, pantry_prices, ing_name, unit) ==
    IF DictGet(known, ing_name) # None THEN DictGet(known, ing_name)
    ELSE IF DictGet(ingredient_prices, <<ing_name, unit>>) # None
         THEN DictGet(ingredient_prices, <<ing_name, unit>>)
    ELSE DictGet(pantry_prices, ing_name)

(***************************************************************************)
(* store_items: a defaultdict(list), store name -> lines.                  *)
(***************************************************************************)
EmptyItems == <<>>
AddItem(items, store, line) ==
    IF store \in DOMAIN items
    THEN (store :> Append(items[store], line)) @@ items
    ELSE (store :> <<line>>) @@ items

Line(n, q, u, c) == [name |-> n, qty |-> q, unit |-> u, cost |-> c]

\* list.sort(key=lambda x: x[0]): stable, by display name.
RECURSIVE InsertLine(_, _)
InsertLine(sorted, l) ==
    IF sorted = <<>> THEN <<l>>
    ELSE IF TextLess(l.name, Head(sorted).name) THEN <<l>> \o sorted
    ELSE <<Head(sorted)>> \o InsertLine(Tail(sorted), l)

\* The first n lines of ls, sorted.
RECURSIVE SortPrefix(_, _)
SortPrefix(ls, n) ==
    IF n = 0 THEN <<>> ELSE InsertLine(SortPrefix(ls, n - 1), ls[n])

SortLines(ls) == SortPrefix(ls, Len(ls))

RECURSIVE SortEach(_, _)
SortEach(items, todo) ==
    IF todo = {} THEN items
    ELSE LET st == CHOOSE x \in todo : TRUE
         IN  SortEach((st :> SortLines(items[st])) @@ items, todo \ {st})

\* Variant: the buckets are left in insertion order.
SortStores_unsorted(items) == items
\* for store in store_items: store_items[store].sort(...)
SortStores(items) == SortEach(items, DOMAIN items)

\* The lines of all buckets.
AllLines(items) ==
    UNION { { items[st][i] : i \in 1..Len(items[st]) } : st \in DOMAIN items }

(***************************************************************************)
(* generate, the loop over required.items() (lines 93-125).                *)
(***************************************************************************)
\* Variant: only a negative difference drops the key.
BuyQty_negative(staple_names, pantry_qty, use_pantry, ing_name, needed) ==
    IF ing_name \in staple_names THEN None
    ELSE IF use_pantry
         THEN LET on_hand == IF DictHas(pantry_qty, ing_name)
                             THEN Val(DictGet(pantry_qty, ing_name)) ELSE 0
                  buy_qty == needed - on_hand
              IN  IF buy_qty < 0 THEN None ELSE Some(buy_qty)
         ELSE Some(needed)
\* Variant: a key that needs nothing is dropped with offsetting disabled too.
BuyQty_positive(staple_names, pantry_qty, use_pantry, ing_name, needed) ==
    IF ing_name \in staple_names THEN None
    ELSE LET on_hand == IF use_pantry /\ DictHas(pantry_qty, ing_name)
                        THEN Val(DictGet(pantry_qty, ing_name)) ELSE 0
             buy_qty == needed - on_hand
         IN  IF buy_qty <= 0 THEN None ELSE Some(buy_qty)
\* buy_qty of one key, or None when the key is skipped.
BuyQty(staple_names, pantry_qty, use_pantry, ing_name, needed) ==
    IF ing_name \in staple_names THEN None
    ELSE IF use_pantry
         THEN LET on_hand == IF DictHas(pantry_qty, ing_name)
                             THEN Val(DictGet(pantry_qty, ing_name)) ELSE 0
                  buy_qty == needed - on_hand
              IN  IF buy_qty <= 0 THEN None ELSE Some(buy_qty)
         ELSE Some(needed)

\* The body of the loop for one key: quantities, staple names and prices
\* come from the rows read before the loop (snap), the store from the
\* SELECT of lines 107-113, made when the key is reached (db).
RecipeItem(items, entry, snap, db, ingredient_prices, use_pantry) ==
    LET ing_name == entry.k[1]
        unit == entry.k[2]
        needed == entry.v
        buy == BuyQty(StapleNames(snap.staples), PantryQtyDict(<<>>, snap.pantry),
                      use_pantry, ing_name, needed)
        unit_price == UnitPrice(KnownPriceDict(<<>>, snap.known_prices),
                                ingredient_prices,
                                PantryPriceDict(<<>>, snap.pantry),
                                ing_name, unit)
        item_cost == IF unit_price # None
                     THEN Some(RoundCost(Val(unit_price), Val(buy)))
                     ELSE None
        line == Line(Title(ing_name), Round2(Val(buy)), unit, item_cost)
    IN  IF buy = None THEN items
        ELSE AddItem(items, StoreNameFor(db, ing_name), line)

\* The loop on tables that do not change while it runs.
RECURSIVE RecipeLoop(_, _, _, _, _)
RecipeLoop(items, required, db, ingredient_prices, use_pantry) ==
    IF required = <<>> THEN items
    ELSE RecipeLoop(
             RecipeItem(items, Head(required), db, db, ingredient_prices, use_pantry),
             Tail(required), db, ingredient_prices, use_pantry)

(***************************************************************************)
(* generate, the staples that need to be bought (lines 131-149).           *)
(***************************************************************************)
\* Variant: the staple's store is not joined.
StapleStoreName_unjoined(db, row) == None
\* st.name of the LEFT JOIN: None when the staple has no (existing) store.
StapleStoreName(db, row) ==
    IF row.preferred_store_id # None /\ Val(row.preferred_store_id) \in DOMAIN db.stores
    THEN Some(db.stores[Val(row.preferred_store_id)])
    ELSE None

\* Variant: the names are compared as they are displayed.
AlreadyListed_exact(items, staple_lower) ==
    \E l \in AllLines(items) : l.name = staple_lower
\* any(item[0].lower().strip() == staple_lower for items in ... for item in items)
AlreadyListed(items, staple_lower) ==
    \E l \in AllLines(items) : Norm(l.name) = staple_lower

RECURSIVE StapleLoop(_, _, _)
StapleLoop(items, rows, db) ==
    IF rows = <<>> THEN items
    ELSE LET row == Head(rows)
             joined == StapleStoreName(db, row)
             store == IF joined # None /\ Val(joined) # "" THEN Val(joined)
                      ELSE StaplesBucket
             staple_lower == Norm(row.name)
             staple_price == DictGet(KnownPriceDict(<<>>, db.known_prices), staple_lower)
         IN  StapleLoop(
                 IF AlreadyListed(items, staple_lower) THEN items
                 ELSE AddItem(items, store, Line(row.name, 0, t_empty, staple_price)),
                 Tail(rows), db)

\* SELECT ... FROM staples s ... WHERE s.need_to_buy = 1
StapleNeedRows(stp) ==
    LET Needed(row) == row.need_to_buy
    IN  SelectSeq(stp, Needed)

(***************************************************************************)
(* generate(start_date, end_date, use_pantry) on the tables db: what it    *)
(* returns (result) or that it raised, with the values of its locals       *)
(* `required`, `ingredient_prices` and of `store_items` after line 129     *)
(* (recipe_items).                                                         *)
(***************************************************************************)
GenReturn(start, end, use_pantry, raised, required, prices, recipe_items, result) ==
    [op |-> "generate", start |-> start, end |-> end, use_pantry |-> use_pantry,
     raised |-> raised, required |-> required, ingredient_prices |-> prices,
     recipe_items |-> recipe_items, result |-> result]

generate(db, start, end, use_pantry) ==
    LET entries == get_meals_in_range(db.meal_plan, start, end)
        visits == Visits(db.recipes, entries)
        raised == \E i \in 1..Len(visits) : IngRaises(visits[i].ing)
        required == Accumulate(<<>>, visits)
        ingredient_prices == RecordPrices(<<>>, visits)
        recipe_items ==
            SortStores(RecipeLoop(EmptyItems, required, db, ingredient_prices, use_pantry))
        result == SortStores(StapleLoop(recipe_items, StapleNeedRows(db.staples), db))
    IN  IF entries = <<>>
        THEN GenReturn(start, end, use_pantry, FALSE, <<>>, <<>>, EmptyItems, EmptyItems)
        ELSE IF raised
        THEN GenReturn(start, end, use_pantry, TRUE, <<>>, <<>>, EmptyItems, EmptyItems)
        ELSE IF required = <<>>
        THEN GenReturn(start, end, use_pantry, FALSE, required, ingredient_prices,
                       EmptyItems, EmptyItems)
        ELSE GenReturn(start, end, use_pantry, FALSE, required, ingredient_prices,
                       recipe_items, result)

(***************************************************************************)
(* format_shopping_list: the text as its sequence of lines.  A line is a   *)
(* record of what is printed on it; money is printed with two decimals     *)
(* (cents), a quantity only when it is truthy and positive.                *)
(***************************************************************************)
OutLine(kind, text, qty, amount) ==
    [kind |-> kind, text |-> text, qty |-> qty, amount |-> amount]

\* f"{x:.2f}" of an amount in thousandths, in cents.
Cents(c) == RoundHalfEven(c, 10)

\* return "No items needed."
NoItemsNeeded == << OutLine("text", "No items needed.", None, None) >>

\* sorted(shopping_list.items()) over the bucket names that occur.
SortedStoreNames == << "Aldi", "No Store Assigned", "Staples" >>

\* Variant: the cost is printed only next to a printed quantity.
FormatItem_with_qty(l) ==
    OutLine("item", l.name,
            IF l.qty # 0 /\ l.qty > 0 THEN Some(<<l.qty, RStrip(l.unit)>>) ELSE None,
            IF l.cost # None /\ l.qty > 0 THEN Some(Cents(Val(l.cost))) ELSE None)
\* "  [ ] name", " - qty unit" if qty and qty > 0, "  $cost" if cost is not None
FormatItem(l) ==
    OutLine("item", l.name,
            IF l.qty # 0 /\ l.qty > 0 THEN Some(<<l.qty, RStrip(l.unit)>>) ELSE None,
            IF l.cost # None THEN Some(Cents(Val(l.cost))) ELSE None)

\* store_subtotal += cost, over the first n lines.
RECURSIVE SumCosts(_, _)
SumCosts(ls, n) ==
    IF n = 0 THEN 0
    ELSE SumCosts(ls, n - 1) + (IF ls[n].cost # None THEN Val(ls[n].cost) ELSE 0)

\* Variant: the subtotal is emitted for every store.
StoreHasPriced_always(ls) == TRUE
\* store_has_priced after the loop over the items of a store.
StoreHasPriced(ls) == \E i \in 1..Len(ls) : ls[i].cost # None

FormatStore(store, ls) ==
    << OutLine("store", store, None, None) >>
    \o [i \in 1..Len(ls) |-> FormatItem(ls[i])]
    \o (IF StoreHasPriced(ls)
        THEN << OutLine("subtotal", "", None, Some(Cents(SumCosts(ls, Len(ls))))) >>
        ELSE <<>>)
    \o << OutLine("blank", "", None, None) >>

\* The sections of the first n bucket names, in sorted order.
RECURSIVE FormatStores(_, _)
FormatStores(shopping_list, n) ==
    IF n = 0 THEN <<>>
    ELSE FormatStores(shopping_list, n - 1)
         \o (IF SortedStoreNames[n] \in DOMAIN shopping_list
             THEN FormatStore(SortedStoreNames[n], shopping_list[SortedStoreNames[n]])
             ELSE <<>>)

\* grand_total += store_subtotal, over the first n bucket names.
RECURSIVE GrandTotal(_, _)
GrandTotal(shopping_list, n) ==
    IF n = 0 THEN 0
    ELSE GrandTotal(shopping_list, n - 1)
         + (IF SortedStoreNames[n] \in DOMAIN shopping_list
            THEN SumCosts(shopping_list[SortedStoreNames[n]],
                          Len(shopping_list[SortedStoreNames[n]]))
            ELSE 0)

\* "\n".join(lines).strip(): a trailing blank line goes, and so does
\* whitespace that ends the last printed line.
StripText(lines) ==
    LET cut == IF lines # <<>> /\ lines[Len(lines)].kind = "blank"
               THEN SubSeq(lines, 1, Len(lines) - 1) ELSE lines
        last == cut[Len(cut)]
    IN  IF cut # <<>> /\ last.kind = "item" /\ last.qty = None /\ last.amount = None
        THEN [cut EXCEPT ![Len(cut)].text = RStrip(@)]
        ELSE cut

format_shopping_list(shopping_list) ==
    IF DOMAIN shopping_list = {}
    THEN NoItemsNeeded
    ELSE LET n == Len(SortedStoreNames)
             grand_total_has_items ==
                 \E st \in DOMAIN shopping_list : StoreHasPriced(shopping_list[st])
         IN  StripText(
                 FormatStores(shopping_list, n)
                 \o (IF grand_total_has_items
                     THEN << OutLine("total", "", None,
                                     Some(Cents(GrandTotal(shopping_list, n)))) >>
                     ELSE <<>>))

(***************************************************************************)
(* The tables as one value, so that generate can be applied to the         *)
(* current tables and to variations of them.                               *)
(***************************************************************************)
Database(st, pa, rc, mp, sp, kp) ==
    [stores |-> st, pantry |-> pa, recipes |-> rc, meal_plan |-> mp,
     staples |-> sp, known_prices |-> kp]
DB == Database(stores, pantry, recipes, meal_plan, staples, known_prices)

\* A REFERENCES stores(id) / recipes(id) column under PRAGMA foreign_keys = ON.
RefOk(ref, table) == IF ref = None THEN TRUE ELSE Val(ref) \in DOMAIN table

(***************************************************************************)
(* core/meal_plan.py: set_meal, clear_meal.                                *)
(***************************************************************************)
MealRow(d, slot, r, s, n) ==
    [date |-> d, meal_slot |-> slot, recipe_id |-> r, servings |-> s, notes |-> n]

\* bool(notes)
NotesTruthy(notes) == notes # None /\ Val(notes) # ""

\* The meal_plan table after set_meal's statement.
\* Variant: set_meal without the lookup of the existing entry (always INSERT).
SetMealRows_insert(mp, d, slot, recipe_id, servings, notes) ==
    IF recipe_id # None \/ NotesTruthy(notes)
    THEN Append(mp, MealRow(d, slot, recipe_id, servings, notes))
    ELSE mp

SetMealRows(mp, d, slot, recipe_id, servings, notes) ==
    LET existing == \E i \in 1..Len(mp) : mp[i].date = d /\ mp[i].meal_slot = slot
        has_content == recipe_id # None \/ NotesTruthy(notes)
        Other(row) == ~(row.date = d /\ row.meal_slot = slot)
    IN  IF existing
        THEN IF has_content
             THEN [i \in 1..Len(mp) |->
                     IF mp[i].date = d /\ mp[i].meal_slot = slot
                     THEN MealRow(d, slot, recipe_id, servings, notes)
                     ELSE mp[i]]
             ELSE SelectSeq(mp, Other)
        ELSE IF has_content
             THEN Append(mp, MealRow(d, slot, recipe_id, servings, notes))
             ELSE mp

\* A recipe_id that is no recipe fails the foreign key: the statement raises
\* and nothing is committed.
set_meal(d, slot, args) ==
    /\ Len(SetMealRows(meal_plan, d, slot, args.recipe_id, args.servings, args.notes))
          <= MaxMeals
    /\ meal_plan' =
          IF RefOk(args.recipe_id, recipes)
          THEN SetMealRows(meal_plan, d, slot, args.recipe_id, args.servings, args.notes)
          ELSE meal_plan
    /\ ret' = NoCall
    /\ prev' = NoCall
    /\ UNCHANGED <<cache_vars, gen, inflight>>
    /\ UNCHANGED <<stores, pantry, recipes, staples, known_prices, autoinc>>

\* set_meal(entry_date, slot, None)
clear_meal(d, slot) ==
    /\ meal_plan' = SetMealRows(meal_plan, d, slot, None, 1, None)
    /\ ret' = NoCall
    /\ prev' = NoCall
    /\ UNCHANGED <<cache_vars, gen, inflight>>
    /\ UNCHANGED <<stores, pantry, recipes, staples, known_prices, autoinc>>

(***************************************************************************)
(* core/recipes.py: add, update.                                           *)
(***************************************************************************)
recipes_add(ingredients) ==
    /\ autoinc.recipes < MaxRecipes
    /\ recipes' = [id \in DOMAIN recipes \cup {autoinc.recipes + 1} |->
                     IF id = autoinc.recipes + 1 THEN ingredients ELSE recipes[id]]
    /\ autoinc' = [autoinc EXCEPT !.recipes = @ + 1]
    /\ ret' = NoCall
    /\ prev' = NoCall
    /\ UNCHANGED <<cache_vars, gen, inflight>>
    /\ UNCHANGED <<stores, pantry, meal_plan, staples, known_prices>>

\* DELETE FROM recipe_ingredients WHERE recipe_id = ?, then the new rows.
\* meal_plan.recipe_id REFERENCES recipes(id) ON DELETE SET NULL
SetNull(mp, id) ==
    [i \in 1..Len(mp) |->
       IF mp[i].recipe_id = Some(id) THEN [mp[i] EXCEPT !.recipe_id = None] ELSE mp[i]]

\* recipes.delete(recipe_id): DELETE FROM recipes WHERE id = ?; the
\* ingredients go with the recipe (ON DELETE CASCADE).
recipes_delete(id) ==
    /\ id \in DOMAIN recipes
    /\ recipes' = [r \in DOMAIN recipes \ {id} |-> recipes[r]]
    /\ meal_plan' = SetNull(meal_plan, id)
    /\ ret' = NoCall
    /\ prev' = NoCall
    /\ UNCHANGED <<cache_vars, gen, inflight>>
    /\ UNCHANGED <<stores, pantry, staples, known_prices, autoinc>>

recipes_update(id, ingredients) ==
    /\ id \in DOMAIN recipes
    /\ recipes' = [recipes EXCEPT ![id] = ingredients]
    /\ ret' = NoCall
    /\ prev' = NoCall
    /\ UNCHANGED <<cache_vars, gen, inflight>>
    /\ UNCHANGED <<stores, pantry, meal_plan, staples, known_prices, autoinc>>

(***************************************************************************)
(* core/stores.py: add.                                                    *)
(***************************************************************************)
\* stores.name is UNIQUE: a second store of the name raises.
stores_add(name) ==
    /\ \A id \in DOMAIN stores : stores[id] # name
    /\ stores' = [id \in DOMAIN stores \cup {autoinc.stores + 1} |->
                    IF id = autoinc.stores + 1 THEN name ELSE stores[id]]
    /\ autoinc' = [autoinc EXCEPT !.stores = @ + 1]
    /\ ret' = NoCall
    /\ prev' = NoCall
    /\ UNCHANGED <<cache_vars, gen, inflight>>
    /\ UNCHANGED <<pantry, recipes, meal_plan, staples, known_prices>>

(***************************************************************************)
(* core/stores.py: delete.  pantry.preferred_store_id,                     *)
(* staples.preferred_store_id and known_prices.store_id all REFERENCE      *)
(* stores(id) with no ON DELETE action, and every connection runs with     *)
(* PRAGMA foreign_keys = ON.                                               *)
(***************************************************************************)
\* UPDATE pantry SET preferred_store_id = NULL WHERE preferred_store_id = ?
NullifyPantry(rows, store_id) ==
    [i \in 1..Len(rows) |->
        IF rows[i].preferred_store_id = Some(store_id)
        THEN [rows[i] EXCEPT !.preferred_store_id = None]
        ELSE rows[i]]

\* A staple or a known price still refers to the store: the DELETE then
\* fails with "FOREIGN KEY constraint failed".
StillReferenced(store_id) ==
    \/ \E i \in 1..Len(staples) : staples[i].preferred_store_id = Some(store_id)
    \/ \E i \in 1..Len(known_prices) : known_prices[i].store_id = Some(store_id)

\* delete(store_id): the UPDATE and the DELETE run in one transaction; when
\* the DELETE raises, conn.close() in the finally clause drops the
\* uncommitted UPDATE and the exception reaches the caller.
stores_delete(store_id) ==
    LET raised == store_id \in DOMAIN stores /\ StillReferenced(store_id)
    IN  /\ stores' = IF raised THEN stores
                     ELSE [id \in DOMAIN stores \ {store_id} |-> stores[id]]
        /\ pantry' = IF raised THEN pantry ELSE NullifyPantry(pantry, store_id)
        /\ ret' = [op |-> "stores_delete", store_id |-> store_id,
                   existed |-> store_id \in DOMAIN stores,
                   pantry_before |-> pantry, raised |-> raised]
        /\ prev' = NoCall
        /\ UNCHANGED <<cache_vars, gen, inflight>>
        /\ UNCHANGED <<recipes, meal_plan, staples, known_prices, autoinc>>

(***************************************************************************)
(* core/pantry.py: add, update, delete.                                    *)
(***************************************************************************)
pantry_add(item) ==
    /\ Len(pantry) < MaxPantry
    /\ RefOk(item.preferred_store_id, stores)
    /\ pantry' = Append(pantry, item)
    /\ ret' = NoCall
    /\ prev' = NoCall
    /\ UNCHANGED <<cache_vars, gen, inflight>>
    /\ UNCHANGED <<stores, recipes, meal_plan, staples, known_prices, autoinc>>

pantry_update(i, item) ==
    /\ i \in 1..Len(pantry)
    /\ RefOk(item.preferred_store_id, stores)
    /\ pantry' = [pantry EXCEPT ![i] = item]
    /\ ret' = NoCall
    /\ prev' = NoCall
    /\ UNCHANGED <<cache_vars, gen, inflight>>
    /\ UNCHANGED <<stores, recipes, meal_plan, staples, known_prices, autoinc>>

pantry_delete(i) ==
    /\ i \in 1..Len(pantry)
    /\ pantry' = SubSeq(pantry, 1, i - 1) \o SubSeq(pantry, i + 1, Len(pantry))
    /\ ret' = NoCall
    /\ prev' = NoCall
    /\ UNCHANGED <<cache_vars, gen, inflight>>
    /\ UNCHANGED <<stores, recipes, meal_plan, staples, known_prices, autoinc>>

(***************************************************************************)
(* core/staples.py: add, set_need_to_buy.                                  *)
(***************************************************************************)
\* staples.name is UNIQUE (exact text): a second staple of the name raises.
staples_add(staple) ==
    /\ Len(staples) < MaxStaples
    /\ \A i \in 1..Len(staples) : staples[i].name # staple.name
    /\ RefOk(staple.preferred_store_id, stores)
    /\ staples' = Append(staples, staple)
    /\ ret' = NoCall
    /\ prev' = NoCall
    /\ UNCHANGED <<cache_vars, gen, inflight>>
    /\ UNCHANGED <<stores, pantry, recipes, meal_plan, known_prices, autoinc>>

set_need_to_buy(i, need) ==
    /\ i \in 1..Len(staples)
    /\ staples' = [staples EXCEPT ![i].need_to_buy = need]
    /\ ret' = NoCall
    /\ prev' = NoCall
    /\ UNCHANGED <<cache_vars, gen, inflight>>
    /\ UNCHANGED <<stores, pantry, recipes, meal_plan, known_prices, autoinc>>

(***************************************************************************)
(* core/known_prices.py: upsert.                                           *)
(***************************************************************************)
\* A row of known_prices; store_id is NULL unless a request gives one.
KnownRow(n, p) == [item_name |-> n, unit_price |-> p, store_id |-> None]

\* SELECT id FROM known_prices WHERE LOWER(item_name) = LOWER(?), item_name.strip()
\* UPDATE ... SET unit_price=?, unit=?, store_id=? of the row found, else
\* INSERT of the stripped name.
UpsertRows(kp, item_name, unit_price, store_id) ==
    LET hits == { i \in 1..Len(kp) :
                    SqlLower(kp[i].item_name) = SqlLower(Strip(item_name)) }
    IN  IF hits # {}
        THEN LET first == CHOOSE h \in hits : \A o \in hits : h <= o
             IN  [kp EXCEPT ![first].unit_price = unit_price,
                            ![first].store_id = store_id]
        ELSE Append(kp, [KnownRow(Strip(item_name), unit_price)
                            EXCEPT !.store_id = store_id])

known_prices_upsert(arg) ==
    /\ known_prices' = UpsertRows(known_prices, arg.item_name, arg.unit_price, None)
    /\ ret' = NoCall
    /\ prev' = NoCall
    /\ UNCHANGED <<cache_vars, gen, inflight>>
    /\ UNCHANGED <<stores, pantry, recipes, meal_plan, staples, autoinc>>

\* upsert(item_name, unit_price, store_id=...): known_prices.store_id
\* REFERENCES stores(id), so a store_id of no store raises.
known_prices_upsert_at(arg, store_id) ==
    /\ RefOk(store_id, stores)
    /\ known_prices' = UpsertRows(known_prices, arg.item_name, arg.unit_price, store_id)
    /\ ret' = NoCall
    /\ prev' = NoCall
    /\ UNCHANGED <<cache_vars, gen, inflight>>
    /\ UNCHANGED <<stores, pantry, recipes, meal_plan, staples, autoinc>>

\* bulk_upsert(items): the same lookup, UPDATE or INSERT for each item in
\* turn on one connection, committed together.
RECURSIVE BulkRows(_, _)
BulkRows(kp, items) ==
    IF items = <<>> THEN kp
    ELSE BulkRows(UpsertRows(kp, Head(items).item_name, Head(items).unit_price, None),
                  Tail(items))

bulk_upsert(items) ==
    /\ known_prices' = BulkRows(known_prices, items)
    /\ ret' = NoCall
    /\ prev' = NoCall
    /\ UNCHANGED <<cache_vars, gen, inflight>>
    /\ UNCHANGED <<stores, pantry, recipes, meal_plan, staples, autoinc>>

\* known_prices.delete(price_id)
known_prices_delete(i) ==
    /\ i \in 1..Len(known_prices)
    /\ known_prices' = SubSeq(known_prices, 1, i - 1)
                         \o SubSeq(known_prices, i + 1, Len(known_prices))
    /\ ret' = NoCall
    /\ prev' = NoCall
    /\ UNCHANGED <<cache_vars, gen, inflight>>
    /\ UNCHANGED <<stores, pantry, recipes, meal_plan, staples, autoinc>>

(***************************************************************************)
(* Python values as the cache functions handle them: None, numbers, bools, *)
(* str, list, tuple and dict (an insertion-ordered sequence of [k, v] with *)
(* text keys).                                                             *)
(***************************************************************************)
PyNone == [t |-> "none"]
PyNum(n) == [t |-> "num", v |-> n]
PyBool(b) == [t |-> "bool", v |-> b]
PyStr(s) == [t |-> "str", v |-> s]
PyList(xs) == [t |-> "list", v |-> xs]
PyTuple(xs) == [t |-> "tuple", v |-> xs]
PyDict(kvs) == [t |-> "dict", v |-> kvs]

\* dict.get(key, default) on a dict value.
PyGet(d, key, default) ==
    IF \E i \in 1..Len(d.v) : d.v[i].k = key
    THEN d.v[CHOOSE i \in 1..Len(d.v) : d.v[i].k = key].v
    ELSE default

\* What `for x in value` yields: the items of a list or tuple, the keys of
\* a dict, the characters of a str; None when the value is not iterable
\* (TypeError).
PyIter(x) ==
    IF x.t = "list" THEN Some(x.v)
    ELSE IF x.t = "tuple" THEN Some(x.v)
    ELSE IF x.t = "dict" THEN Some([i \in 1..Len(x.v) |-> PyStr(x.v[i].k)])
    ELSE IF x.t = "str" THEN Some([i \in 1..Len(x.v) |-> PyStr(<<x.v[i]>>)])
    ELSE None

\* Variant: the items read back stay lists (no tuple(item)).
TupleEach_lists(x) ==
    IF PyIter(x) = None THEN None
    ELSE Some(PyList(Val(PyIter(x))))

\* [tuple(item) for item in x]; None when x or one of its items is not
\* iterable (TypeError).
TupleEach(x) ==
    IF PyIter(x) = None THEN None
    ELSE LET items == Val(PyIter(x))
         IN  IF \E i \in 1..Len(items) : PyIter(items[i]) = None
             THEN None
             ELSE Some(PyList([i \in 1..Len(items) |-> PyTuple(Val(PyIter(items[i])))]))

(***************************************************************************)
(* json.dumps / json.loads.  A JSON text is modelled by the value it       *)
(* denotes: tuples are written as arrays, so they are read back as lists.  *)
(***************************************************************************)
RECURSIVE JsonOf(_)
JsonOf(x) ==
    IF x.t = "list" \/ x.t = "tuple"
    THEN PyList([i \in 1..Len(x.v) |-> JsonOf(x.v[i])])
    ELSE IF x.t = "dict"
    THEN PyDict([i \in 1..Len(x.v) |-> [k |-> x.v[i].k, v |-> JsonOf(x.v[i].v)]])
    ELSE x

\* The text json.dumps(x) returns.
JsonText(x) == [kind |-> "json", v |-> JsonOf(x)]
\* A non-empty text that is no JSON document.
NotJsonText == [kind |-> "garbage"]
\* The empty text.
EmptyText == [kind |-> "empty"]
\* No row in settings for the key: get_setting returns its default, None.
NoSlot == [kind |-> "missing"]

(***************************************************************************)
(* load_cached_list (lines 248-274).  A step of it ends "ok" with a value  *)
(* or with the name of the exception it raised.                            *)
(***************************************************************************)
Ok(v) == [status |-> "ok", v |-> v]
Raise(e) == [status |-> e]

\* d[key] = value on a dict value.
PySet(d, key, value) ==
    IF \E i \in 1..Len(d.v) : d.v[i].k = key
    THEN PyDict([i \in 1..Len(d.v) |->
                   IF d.v[i].k = key THEN [k |-> key, v |-> value] ELSE d.v[i]])
    ELSE PyDict(Append(d.v, [k |-> key, v |-> value]))

\* Lines 260-261 when shopping_data is a dict: every value becomes the list
\* of tuple(item) of its items.
RECURSIVE ConvertStores(_, _)
ConvertStores(sd, i) ==
    IF i > Len(sd.v) THEN Ok(sd)
    ELSE IF TupleEach(sd.v[i].v) = None THEN Raise("TypeError")
    ELSE ConvertStores(PySet(sd, sd.v[i].k, Val(TupleEach(sd.v[i].v))), i + 1)

\* Lines 260-261 when shopping_data is a list: its items are used as
\* indices into it.
RECURSIVE ConvertIndexed(_, _)
ConvertIndexed(sd, i) ==
    IF i > Len(sd.v) THEN Ok(sd)
    ELSE LET e == sd.v[i]
             idx == IF e.t = "num" THEN e.v ELSE IF e.v THEN 1 ELSE 0
             pos == IF idx >= 0 THEN idx + 1 ELSE Len(sd.v) + idx + 1
         IN  IF e.t # "num" /\ e.t # "bool" THEN Raise("TypeError")
             ELSE IF pos < 1 \/ pos > Len(sd.v) THEN Raise("IndexError")
             ELSE IF TupleEach(sd.v[pos]) = None THEN Raise("TypeError")
             ELSE ConvertIndexed(
                      PyList([sd.v EXCEPT ![pos] = Val(TupleEach(sd.v[pos]))]), i + 1)

\* for store in data.get("shopping_data", {}): data["shopping_data"][store] = ...
ConvertShoppingData(sd) ==
    IF sd.t = "dict" THEN ConvertStores(sd, 1)
    ELSE IF sd.t = "list" THEN ConvertIndexed(sd, 1)
    ELSE IF sd.t = "str" /\ sd.v = <<>> THEN Ok(sd)
    ELSE Raise("TypeError")

\* Lines 265-271: the keys whose converted list is not empty and starts
\* with a 6-element tuple.
RECURSIVE ValidSources(_, _, _)
ValidSources(sources, i, valid) ==
    IF i > Len(sources.v) THEN Ok(valid)
    ELSE LET converted == TupleEach(sources.v[i].v)
         IN  IF converted = None THEN Raise("TypeError")
             ELSE ValidSources(
                      sources, i + 1,
                      IF Val(converted).v # <<>> /\ Len(Val(converted).v[1].v) = 6
                      THEN PySet(valid, sources.v[i].k, Val(converted))
                      ELSE valid)

\* The body of the try block, on the value json.loads returned.
LoadData(data) ==
    IF data.t # "dict" THEN Raise("AttributeError")
    ELSE LET sd == PyGet(data, "shopping_data", PyDict(<<>>))
             stores_done == ConvertShoppingData(sd)
             data1 == IF sd.t = "dict" \/ sd.t = "list"
                      THEN PySet(data, "shopping_data", stores_done.v)
                      ELSE data
             sources == PyGet(data, "ingredient_sources", PyDict(<<>>))
             valid_sources == ValidSources(sources, 1, PyDict(<<>>))
         IN  IF stores_done.status # "ok" THEN stores_done
             ELSE IF sources.t # "dict" THEN Raise("AttributeError")
             ELSE IF valid_sources.status # "ok" THEN valid_sources
             ELSE Ok(PySet(data1, "ingredient_sources", valid_sources.v))

\* except (json.JSONDecodeError, KeyError, TypeError): return None
Caught == {"JSONDecodeError", "KeyError", "TypeError"}

\* load_cached_list() on the content of the slot.
load_cached_list(slot) ==
    IF slot.kind = "missing" \/ slot.kind = "empty" THEN Ok(PyNone)
    ELSE LET outcome == IF slot.kind = "garbage" THEN Raise("JSONDecodeError")
                        ELSE LoadData(slot.v)
         IN  IF outcome.status \in Caught THEN Ok(PyNone) ELSE outcome

(***************************************************************************)
(* get_ingredient_sources (lines 160-196) and the values handed to         *)
(* save_cached_list.                                                       *)
(***************************************************************************)
\* The ISO text of a day: "2026-01-0d".
DateText(d) == <<50, 48, 50, 54, 45, 48, 49, 45, 48, 48 + d>>
\* recipes.name of a recipe (NOT NULL): the recipes are named "R1", "R2", ...
RecipeNameOf(id) == <<82, 48 + id>>

\* The bucket names as text.
StoreText(st) ==
    IF st = "Aldi" THEN <<65, 108, 100, 105>>
    ELSE IF st = "Staples" THEN <<83, 116, 97, 112, 108, 101, 115>>
    ELSE <<78, 111, 32, 83, 116, 111, 114, 101, 32, 65, 115, 115, 105, 103, 110, 101, 100>>

\* sources[key].append((recipe_id, recipe_name, date, meal_slot, qty, unit))
SourceTuple(entry, ing) ==
    PyTuple(<< PyNum(Val(entry.recipe_id)),
               PyStr(RecipeNameOf(Val(entry.recipe_id))),
               PyStr(DateText(entry.date)),
               PyStr(entry.meal_slot),
               PyNum(Val(EffQty(ing)) * entry.servings),
               PyStr(Norm(Val(EffUnit(ing)))) >>)

\* The inner loop over the ingredients of one entry, from the i-th on.
RECURSIVE SourcesOfEntry(_, _, _, _)
SourcesOfEntry(sources, entry, ings, i) ==
    IF i > Len(ings) THEN sources
    ELSE LET key == Norm(Val(EffName(ings[i])))
             old == PyGet(sources, key, PyList(<<>>))
         IN  SourcesOfEntry(
                 PySet(sources, key, PyList(Append(old.v, SourceTuple(entry, ings[i])))),
                 entry, ings, i + 1)

\* The loop over the entries, from the i-th on.
RECURSIVE SourcesOfEntries(_, _, _, _)
SourcesOfEntries(sources, rcp, entries, i) ==
    IF i > Len(entries) THEN sources
    ELSE SourcesOfEntries(
             IF HasRecipe(entries[i])
             THEN SourcesOfEntry(sources, entries[i],
                                 IngredientsOf(rcp, Val(entries[i].recipe_id)), 1)
             ELSE sources,
             rcp, entries, i + 1)

get_ingredient_sources(db, start, end) ==
    SourcesOfEntries(PyDict(<<>>), db.recipes,
                     get_meals_in_range(db.meal_plan, start, end), 1)

\* A line of the result as the tuple (name, quantity, unit, cost).
LineTuple(l) ==
    PyTuple(<< PyStr(l.name), PyNum(l.qty), PyStr(l.unit),
               IF l.cost = None THEN PyNone ELSE PyNum(Val(l.cost)) >>)

\* The mapping generate returned, as a dict of lists of tuples (buckets in
\* the order of their names).
RECURSIVE ResultDict(_, _)
ResultDict(items, n) ==
    IF n = 0 THEN PyDict(<<>>)
    ELSE IF SortedStoreNames[n] \in DOMAIN items
    THEN PySet(ResultDict(items, n - 1), StoreText(SortedStoreNames[n]),
               PyList([i \in 1..Len(items[SortedStoreNames[n]]) |->
                         LineTuple(items[SortedStoreNames[n]][i])]))
    ELSE ResultDict(items, n - 1)

\* The sources as a cache of the 5-element format held them: the tuples
\* without their date.
OldFormat(sources) ==
    PyDict([i \in 1..Len(sources.v) |->
              [k |-> sources.v[i].k,
               v |-> PyList([j \in 1..Len(sources.v[i].v.v) |->
                        PyTuple(SubSeq(sources.v[i].v.v[j].v, 1, 2)
                                \o SubSeq(sources.v[i].v.v[j].v, 4, 6))])]])

(***************************************************************************)
(* save_cached_list, clear_cached_list (lines 236-245, 277-279) and        *)
(* config.set_setting on the slot.                                         *)
(***************************************************************************)
\* payload = {...}
Payload(shopping_data, ingredient_sources, start_date, end_date, use_pantry) ==
    PyDict(<< [k |-> "shopping_data", v |-> shopping_data],
              [k |-> "ingredient_sources", v |-> ingredient_sources],
              [k |-> "start_date", v |-> start_date],
              [k |-> "end_date", v |-> end_date],
              [k |-> "use_pantry", v |-> use_pantry] >>)

(***************************************************************************)
(* A shopping-list request: generate on the current tables.                *)
(***************************************************************************)
Generate(start, end, use_pantry) ==
    /\ ret' = generate(DB, start, end, use_pantry)
    /\ prev' = NoCall
    /\ UNCHANGED tables
    /\ UNCHANGED <<cache_vars, gen, inflight>>

\* Variant: `required` outlives the call, so the repeated request adds its
\* quantities to those of the request before.
GenerateAgain_carried ==
    /\ ret.op = "generate"
    /\ prev = NoCall
    /\ ret' = generate(Database(stores, pantry, recipes, meal_plan \o meal_plan,
                                staples, known_prices),
                       ret.start, ret.end, ret.use_pantry)
    /\ prev' = ret
    /\ UNCHANGED tables
    /\ UNCHANGED <<cache_vars, gen, inflight>>
\* The same request once more, on the tables as they are.
GenerateAgain ==
    /\ ret.op = "generate"
    /\ prev = NoCall
    /\ ret' = generate(DB, ret.start, ret.end, ret.use_pantry)
    /\ prev' = ret
    /\ UNCHANGED tables
    /\ UNCHANGED <<cache_vars, gen, inflight>>

(***************************************************************************)
(* Specifications.                                                         *)
(*                                                                         *)
(* SpecDemand: the meal plan and the recipes are written by set_meal,      *)
(* clear_meal and recipes add/update, over a pantry, staples and           *)
(* known-price state that is either empty or stocked.                      *)
(*                                                                         *)
(* SpecSupply: stores, pantry, staples and known prices are written by     *)
(* their operations, under a fixed plan of two recipes.                    *)
(***************************************************************************)
NoStores == [id \in {} |-> ""]
NoRecipes == [id \in {} |-> <<>>]
OneStore == [id \in {1} |-> "Aldi"]

InitDemand ==
    /\ meal_plan = <<>>
    /\ recipes = NoRecipes
    /\ \/ /\ stores = NoStores
          /\ pantry = <<>>
          /\ staples = <<>>
          /\ known_prices = <<>>
          /\ autoinc = [stores |-> 0, recipes |-> 0]
       \/ /\ stores = OneStore
          /\ pantry = << PantryItem(t_ab, Some(5000), None, Some(1)) >>
          /\ staples = << Staple(t_ef, Some(1), TRUE), Staple(t_Cds, None, FALSE) >>
          /\ known_prices = << KnownRow(t_AB, 2500) >>
          /\ autoinc = [stores |-> 1, recipes |-> 0]
    /\ ret = NoCall
    /\ prev = NoCall
    /\ cache = NoSlot
    /\ saved = NoCall
    /\ gen = Idle
    /\ inflight = NoCalls

NextDemand ==
    \/ \E d \in Days, slot \in SlotsUsed, args \in SetMealArgs : set_meal(d, slot, args)
    \/ \E d \in Days, slot \in SlotsUsed : clear_meal(d, slot)
    \/ \E ingredients \in RecipeChoices : recipes_add(ingredients)
    \/ \E id \in 1..MaxRecipes, ingredients \in RecipeChoices :
          recipes_update(id, ingredients)
    \/ \E id \in 1..MaxRecipes : recipes_delete(id)
    \/ \E start \in Days, end \in Days, use_pantry \in BOOLEAN :
          Generate(start, end, use_pantry)
    \/ GenerateAgain

SpecDemand == InitDemand /\ [][NextDemand]_vars

InitSupply ==
    /\ recipes = [id \in {1, 2} |-> IF id = 1 THEN RecipeA ELSE RecipeB]
    /\ meal_plan = << MealRow(1, s_Dinner, Some(1), 2, None),
                      MealRow(2, s_Lunch, Some(2), 1, Some("guests")) >>
    /\ stores = NoStores
    /\ pantry = <<>>
    /\ staples = <<>>
    /\ known_prices = <<>>
    /\ autoinc = [stores |-> 0, recipes |-> 2]
    /\ ret = NoCall
    /\ prev = NoCall
    /\ cache = NoSlot
    /\ saved = NoCall
    /\ gen = Idle
    /\ inflight = NoCalls

NextSupply ==
    \/ \E name \in StoreNames : stores_add(name)
    \/ \E item \in PantryChoices : pantry_add(item)
    \/ \E i \in 1..MaxPantry, item \in PantryChoices : pantry_update(i, item)
    \/ \E i \in 1..MaxPantry : pantry_delete(i)
    \/ \E staple \in StapleChoices : staples_add(staple)
    \/ \E i \in 1..MaxStaples, need \in BOOLEAN : set_need_to_buy(i, need)
    \/ \E arg \in KnownPriceArgs : known_prices_upsert(arg)
    \/ \E start \in Days, end \in Days, use_pantry \in BOOLEAN :
          Generate(start, end, use_pantry)

SpecSupply == InitSupply /\ [][NextSupply]_vars

(***************************************************************************)
(* The cache slot: the read-only requests of the module, save, load and    *)
(* clear, and texts put in the slot by other writers of the settings.      *)
(***************************************************************************)
\* get_ingredient_sources(start, end) on the current tables.
GetSources(start, end) ==
    /\ ret' = [op |-> "sources", start |-> start, end |-> end,
               result |-> get_ingredient_sources(DB, start, end)]
    /\ prev' = NoCall
    /\ UNCHANGED tables
    /\ UNCHANGED <<cache_vars, gen, inflight>>

\* format_shopping_list on the mapping the latest generate returned.
Format ==
    /\ ret.op = "generate"
    /\ ret' = [op |-> "format", shopping_list |-> ret.result,
               result |-> format_shopping_list(ret.result)]
    /\ prev' = NoCall
    /\ UNCHANGED tables
    /\ UNCHANGED <<cache_vars, gen, inflight>>

\* Variant: a load that empties the slot it has read.
Load_consuming ==
    /\ ret' = [op |-> "load", slot |-> cache, result |-> load_cached_list(cache)]
    /\ prev' = NoCall
    /\ cache' = EmptyText
    /\ saved' = NoCall
    /\ UNCHANGED <<gen, inflight>>
    /\ UNCHANGED tables

\* load_cached_list()
Load ==
    /\ ret' = [op |-> "load", slot |-> cache, result |-> load_cached_list(cache)]
    /\ prev' = NoCall
    /\ UNCHANGED tables
    /\ UNCHANGED <<cache_vars, gen, inflight>>

\* save_cached_list(shopping_data, ingredient_sources, start_date, end_date,
\* use_pantry): set_setting(_CACHE_KEY, json.dumps(payload)).
save_cached_list(shopping_data, ingredient_sources, start_date, end_date, use_pantry) ==
    /\ cache' = JsonText(Payload(shopping_data, ingredient_sources,
                                  start_date, end_date, use_pantry))
    /\ saved' = [op |-> "save", shopping_data |-> shopping_data,
                 ingredient_sources |-> ingredient_sources,
                 start_date |-> start_date, end_date |-> end_date,
                 use_pantry |-> use_pantry]
    /\ ret' = [op |-> "save"]
    /\ prev' = NoCall
    /\ UNCHANGED <<gen, inflight>>
    /\ UNCHANGED tables

\* The sources a caller hands to save: those of the current format, or
\* with the first `old` keys in the 5-element format.
SourcesHeld(sources, old) ==
    PyDict([i \in 1..Len(sources.v) |->
              IF i <= old THEN OldFormat(sources).v[i] ELSE sources.v[i]])

\* A caller saves the list it generated for a range with its sources.
Save(start, end, use_pantry, old) ==
    /\ ~generate(DB, start, end, use_pantry).raised
    /\ save_cached_list(ResultDict(generate(DB, start, end, use_pantry).result,
                                   Len(SortedStoreNames)),
                        SourcesHeld(get_ingredient_sources(DB, start, end), old),
                        PyStr(DateText(start)), PyStr(DateText(end)),
                        PyBool(use_pantry))

\* clear_cached_list(): set_setting(_CACHE_KEY, "")
Clear ==
    /\ cache' = EmptyText
    /\ saved' = NoCall
    /\ ret' = [op |-> "clear"]
    /\ prev' = NoCall
    /\ UNCHANGED <<gen, inflight>>
    /\ UNCHANGED tables

\* One 6-element and one 5-element source entry, as JSON arrays.
Entry6 == PyList(<< PyNum(1), PyStr(RecipeNameOf(1)), PyStr(DateText(1)),
                    PyStr(<<100>>), PyNum(1000), PyStr(t_g) >>)
Entry5 == PyList(<< PyNum(1), PyStr(RecipeNameOf(1)),
                    PyStr(<<100>>), PyNum(1000), PyStr(t_g) >>)

\* A bundle text with the given shopping_data and ingredient_sources.
BundleText(shopping_data, ingredient_sources) ==
    JsonText(Payload(shopping_data, ingredient_sources,
                     PyStr(DateText(1)), PyStr(DateText(2)), PyBool(TRUE)))

\* Texts another writer of the settings table can leave in the slot (a list,
\* to be picked by position).
ForeignTexts ==
    << NotJsonText,
      JsonText(PyList(<<>>)),
      JsonText(PyNum(5)),
      JsonText(PyNone),
      JsonText(PyStr(t_ab)),
      JsonText(PyDict(<<>>)),
      BundleText(PyList(<<PyNum(7)>>), PyDict(<<>>)),
      BundleText(PyStr(t_ab), PyDict(<<>>)),
      BundleText(PyNum(5), PyDict(<<>>)),
      BundleText(PyDict(<<[k |-> StoreText("Aldi"), v |-> PyNum(5)]>>), PyDict(<<>>)),
      BundleText(PyDict(<<>>), PyList(<<>>)),
      BundleText(PyDict(<<>>), PyNum(5)),
      BundleText(PyDict(<<>>), PyDict(<<[k |-> t_ab, v |-> PyNum(5)]>>)),
      BundleText(PyDict(<<>>), PyDict(<<[k |-> t_ab, v |-> PyList(<<>>)]>>)),
      BundleText(PyDict(<<>>), PyDict(<<[k |-> t_ab, v |-> PyList(<<Entry5>>)]>>)),
      BundleText(PyDict(<<>>), PyDict(<<[k |-> t_ab, v |-> PyList(<<Entry6, Entry5>>)],
                                        [k |-> t_cd, v |-> PyList(<<Entry6, Entry6>>)]>>)),
      BundleText(PyDict(<<>>), PyDict(<<[k |-> t_ab, v |-> PyList(<<Entry5, Entry6>>)]>>)) >>

\* config.set_setting("saved_shopping_list", text) by another writer.
set_setting(text) ==
    /\ cache' = text
    /\ saved' = NoCall
    /\ ret' = NoCall
    /\ prev' = NoCall
    /\ UNCHANGED <<gen, inflight>>
    /\ UNCHANGED tables

InitCache ==
    /\ recipes = [id \in {1, 2} |-> IF id = 1 THEN RecipeA ELSE RecipeB]
    /\ meal_plan = << MealRow(1, s_Dinner, Some(1), 2, None),
                      MealRow(2, s_Lunch, Some(2), 1, Some("guests")) >>
    /\ stores = OneStore
    /\ pantry = << PantryItem(t_ab, Some(5000), None, Some(1)) >>
    /\ staples = << Staple(t_ef, Some(1), TRUE) >>
    /\ known_prices \in { <<>>, << KnownRow(t_AB, 2500) >>, << KnownRow(t_ef, 1004) >> }
    /\ autoinc = [stores |-> 1, recipes |-> 2]
    /\ ret = NoCall
    /\ prev = NoCall
    /\ cache = NoSlot
    /\ saved = NoCall
    /\ gen = Idle
    /\ inflight = NoCalls

NextCache ==
    \/ \E start \in Days, end \in Days, use_pantry \in BOOLEAN :
          Generate(start, end, use_pantry)
    \/ \E start \in Days, end \in Days : GetSources(start, end)
    \/ Format
    \/ \E start \in Days, end \in Days, use_pantry \in BOOLEAN, old \in 0..1 :
          Save(start, end, use_pantry, old)
    \/ Load
    \/ Clear
    \/ \E i \in 1..Len(ForeignTexts) : set_setting(ForeignTexts[i])

SpecCache == InitCache /\ [][NextCache]_vars

(***************************************************************************)
(* generate served while other requests commit.  No transaction spans the  *)
(* call: every SELECT of lines 26, 41-46, 67-69, 72-74, 83-85, 107-113 and *)
(* 132-137 reads the tables as they are when it runs, and another          *)
(* connection can commit between two of them.  One action per SELECT, with *)
(* the statements of the code up to the next SELECT.  `seen` records the   *)
(* states of each table that the call has read from.                       *)
(***************************************************************************)
\* The locals of a call between two of its SELECTs.
GenState(pc, args, entries, i, required, prices, snap, store_items, seen) ==
    [pc |-> pc, start |-> args.start, end |-> args.end, use_pantry |-> args.use_pantry,
     entries |-> entries, i |-> i, required |-> required, ingredient_prices |-> prices,
     snap |-> snap, store_items |-> store_items, seen |-> seen,
     raised |-> FALSE, result |-> EmptyItems]

\* The call has returned `result`, or raised.
GenDone(g, raised, result) ==
    [g EXCEPT !.pc = "done", !.raised = raised, !.result = result]

\* The rows the call holds in pantry_rows, staple_rows and known_price_rows.
NoSnap == [pantry |-> <<>>, staples |-> <<>>, known_prices |-> <<>>]

\* The states of the tables at the moment of a read.
SeenNow ==
    [recipes |-> {recipes}, pantry |-> {pantry}, staples |-> {staples},
     known_prices |-> {known_prices}]

\* The call reads `table` now.
See(g, table, state) == [g EXCEPT !.seen[table] = @ \cup {state}]

\* Line 26: entries = get_meals_in_range(start_date, end_date); line 27-28.
GenEntries(start, end, use_pantry) ==
    /\ gen.pc \in {"idle", "done"}
    /\ LET args == [start |-> start, end |-> end, use_pantry |-> use_pantry]
           entries == get_meals_in_range(meal_plan, start, end)
           g == GenState("ingredients", args, entries, 1, <<>>, <<>>, NoSnap,
                         EmptyItems, SeenNow)
       IN  gen' = IF entries = <<>> THEN GenDone(g, FALSE, EmptyItems) ELSE g
    /\ ret' = NoCall
    /\ prev' = NoCall
    /\ UNCHANGED tables
    /\ UNCHANGED <<cache_vars, inflight>>

\* Lines 36-59 for one entry: the SELECT of its recipe's ingredients and
\* the inner loop; after the last entry, lines 61-62.
GenIngredients ==
    /\ gen.pc = "ingredients"
    /\ LET entry == gen.entries[gen.i]
           visits == Visits(recipes, <<entry>>)
           read == IF HasRecipe(entry) THEN See(gen, "recipes", recipes) ELSE gen
           required == Accumulate(gen.required, visits)
           prices == RecordPrices(gen.ingredient_prices, visits)
           g == [read EXCEPT !.required = required, !.ingredient_prices = prices,
                             !.i = @ + 1]
       IN  gen' = IF \E k \in 1..Len(visits) : IngRaises(visits[k].ing)
                  THEN GenDone(read, TRUE, EmptyItems)
                  ELSE IF gen.i < Len(gen.entries) THEN g
                  ELSE IF required = <<>> THEN GenDone(g, FALSE, EmptyItems)
                  ELSE [g EXCEPT !.pc = "pantry"]
    /\ UNCHANGED <<ret, prev>>
    /\ UNCHANGED tables
    /\ UNCHANGED <<cache_vars, inflight>>

\* Lines 67-70 and 77-80: pantry_rows, pantry_qty, pantry_prices.
GenPantry ==
    /\ gen.pc = "pantry"
    /\ gen' = [See(gen, "pantry", pantry) EXCEPT !.snap.pantry = pantry,
                                                 !.pc = "staples"]
    /\ UNCHANGED <<ret, prev>>
    /\ UNCHANGED tables
    /\ UNCHANGED <<cache_vars, inflight>>

\* Lines 72-75: the staples with need_to_buy = 0.
GenStaples ==
    /\ gen.pc = "staples"
    /\ gen' = [See(gen, "staples", staples) EXCEPT !.snap.staples = staples,
                                                   !.pc = "known"]
    /\ UNCHANGED <<ret, prev>>
    /\ UNCHANGED tables
    /\ UNCHANGED <<cache_vars, inflight>>

\* Lines 83-89: known_prices.
GenKnown ==
    /\ gen.pc = "known"
    /\ gen' = [See(gen, "known_prices", known_prices)
                  EXCEPT !.snap.known_prices = known_prices, !.pc = "key", !.i = 1]
    /\ UNCHANGED <<ret, prev>>
    /\ UNCHANGED tables
    /\ UNCHANGED <<cache_vars, inflight>>

\* Lines 93-125 for one key of required: the store SELECT is made only for
\* a key that is not skipped; after the last key, lines 128-129.
GenKey ==
    /\ gen.pc = "key"
    /\ LET entry == gen.required[gen.i]
           skipped == BuyQty(StapleNames(gen.snap.staples),
                             PantryQtyDict(<<>>, gen.snap.pantry),
                             gen.use_pantry, entry.k[1], entry.v) = None
           read == IF skipped THEN gen ELSE See(gen, "pantry", pantry)
           items == RecipeItem(gen.store_items, entry, gen.snap, DB,
                               gen.ingredient_prices, gen.use_pantry)
       IN  gen' = IF gen.i < Len(gen.required)
                  THEN [read EXCEPT !.store_items = items, !.i = @ + 1]
                  ELSE [read EXCEPT !.store_items = SortStores(items), !.pc = "need"]
    /\ UNCHANGED <<ret, prev>>
    /\ UNCHANGED tables
    /\ UNCHANGED <<cache_vars, inflight>>

\* Lines 132-155: the staples with need_to_buy = 1, their injection with
\* the known prices read before, the second sort and the return.
GenNeed ==
    /\ gen.pc = "need"
    /\ LET held == Database(stores, pantry, recipes, meal_plan, staples,
                            gen.snap.known_prices)
           result == SortStores(StapleLoop(gen.store_items, StapleNeedRows(staples), held))
       IN  /\ gen' = GenDone(See(gen, "staples", staples), FALSE, result)
           /\ ret' = GenReturn(gen.start, gen.end, gen.use_pantry, FALSE, gen.required,
                               gen.ingredient_prices, gen.store_items, result)
    /\ prev' = NoCall
    /\ UNCHANGED tables
    /\ UNCHANGED <<cache_vars, inflight>>

\* The writes other requests commit meanwhile.
PantryEdits == { PantryItem(t_ab, Some(5000), None, Some(1)),
                 PantryItem(t_ab, Some(1000), None, None) }
PriceEdits == { KnownArg(t_AB, 2500) }

InitInterleave ==
    /\ recipes = [id \in {1, 2} |-> IF id = 1 THEN RecipeA ELSE RecipeB]
    /\ meal_plan = << MealRow(1, s_Dinner, Some(1), 2, None),
                      MealRow(2, s_Lunch, Some(2), 1, None) >>
    /\ stores = OneStore
    /\ pantry = << PantryItem(t_ab, Some(5000), None, Some(1)) >>
    /\ staples = << Staple(t_ef, Some(1), FALSE) >>
    /\ known_prices = <<>>
    /\ autoinc = [stores |-> 1, recipes |-> 2]
    /\ ret = NoCall
    /\ prev = NoCall
    /\ cache = NoSlot
    /\ saved = NoCall
    /\ gen = Idle
    /\ inflight = NoCalls

NextInterleave ==
    \/ \E use_pantry \in BOOLEAN : GenEntries(1, MaxDay, use_pantry)
    \/ GenIngredients
    \/ GenPantry
    \/ GenStaples
    \/ GenKnown
    \/ GenKey
    \/ GenNeed
    \/ \E need \in BOOLEAN : set_need_to_buy(1, need)
    \/ \E item \in PantryEdits : pantry_update(1, item)
    \/ \E ingredients \in RecipeChoices : recipes_update(1, ingredients)
    \/ \E arg \in PriceEdits : known_prices_upsert(arg)

SpecInterleave == InitInterleave /\ [][NextInterleave]_vars

(***************************************************************************)
(* The price book: upsert, bulk_upsert and delete, one after another.      *)
(***************************************************************************)
\* The most rows the requests at hand can leave in known_prices.
MaxKnown == 4

InitPrices ==
    /\ recipes = NoRecipes
    /\ meal_plan = <<>>
    /\ stores = NoStores
    /\ pantry = <<>>
    /\ staples = <<>>
    /\ known_prices = <<>>
    /\ autoinc = [stores |-> 0, recipes |-> 0]
    /\ ret = NoCall
    /\ prev = NoCall
    /\ cache = NoSlot
    /\ saved = NoCall
    /\ gen = Idle
    /\ inflight = NoCalls

NextPrices ==
    \/ \E arg \in PriceBookArgs : known_prices_upsert(arg)
    \/ \E items \in PriceBookLists : bulk_upsert(items)
    \/ \E i \in 1..MaxKnown : known_prices_delete(i)

SpecPrices == InitPrices /\ [][NextPrices]_vars

(***************************************************************************)
(* set_meal served on two connections at once.  The lookup of lines 69-72  *)
(* is a SELECT outside any transaction; the UPDATE, DELETE or INSERT of    *)
(* lines 76-92 and the commit come later, and the other connection can     *)
(* commit in between.                                                      *)
(***************************************************************************)
\* Lines 69-74: existing and has_content of the call on connection p.
SetMealCheck(p, d, slot, args) ==
    /\ inflight.calls[p].pc \in {"idle", "done"}
    /\ Len(meal_plan) + Cardinality({ q \in Procs : inflight.calls[q].pc = "checked" })
          < MaxMeals
    /\ inflight' = [inflight EXCEPT !.calls[p] =
                       [pc |-> "checked", op |-> "set_meal", date |-> d, slot |-> slot,
                        args |-> args,
                        existing |-> \E i \in 1..Len(meal_plan) :
                                        meal_plan[i].date = d /\ meal_plan[i].meal_slot = slot]]
    /\ UNCHANGED <<ret, prev, gen>>
    /\ UNCHANGED tables
    /\ UNCHANGED cache_vars

\* Lines 76-93 on the rows as they are now, for the `existing` found before.
SetMealWriteRows(mp, call) ==
    LET d == call.date
        slot == call.slot
        has_content == call.args.recipe_id # None \/ NotesTruthy(call.args.notes)
        Other(row) == ~(row.date = d /\ row.meal_slot = slot)
        row == MealRow(d, slot, call.args.recipe_id, call.args.servings, call.args.notes)
    IN  IF call.existing
        THEN IF has_content
             THEN [i \in 1..Len(mp) |->
                     IF mp[i].date = d /\ mp[i].meal_slot = slot THEN row ELSE mp[i]]
             ELSE SelectSeq(mp, Other)
        ELSE IF has_content THEN Append(mp, row) ELSE mp

\* The write and the commit of the call on connection p.
SetMealWrite(p) ==
    /\ inflight.calls[p].pc = "checked"
    /\ inflight.calls[p].op = "set_meal"
    /\ meal_plan' = IF RefOk(inflight.calls[p].args.recipe_id, recipes)
                    THEN SetMealWriteRows(meal_plan, inflight.calls[p])
                    ELSE meal_plan
    /\ inflight' = [inflight EXCEPT !.calls[p].pc = "done"]
    /\ ret' = NoCall
    /\ prev' = NoCall
    /\ UNCHANGED <<stores, pantry, recipes, staples, known_prices, autoinc>>
    /\ UNCHANGED <<cache_vars, gen>>

InitRace ==
    /\ recipes = [id \in {1, 2} |-> IF id = 1 THEN RecipeA ELSE RecipeB]
    /\ meal_plan = <<>>
    /\ stores = NoStores
    /\ pantry = <<>>
    /\ staples = <<>>
    /\ known_prices = <<>>
    /\ autoinc = [stores |-> 0, recipes |-> 2]
    /\ ret = NoCall
    /\ prev = NoCall
    /\ cache = NoSlot
    /\ saved = NoCall
    /\ gen = Idle
    /\ inflight = NoCalls

\* clear_meal is set_meal without recipe and notes.
RaceArgs == SetMealArgs \cup { MealArg(None, 1, None) }

NextRace ==
    \/ \E p \in Procs, d \in Days, slot \in SlotsUsed, args \in RaceArgs :
          SetMealCheck(p, d, slot, args)
    \/ \E p \in Procs : SetMealWrite(p)

SpecRace == InitRace /\ [][NextRace]_vars

(***************************************************************************)
(* save, clear and load served on two connections at once.  save builds    *)
(* its text with json.dumps and then runs the single upsert statement of   *)
(* set_setting; load runs the single SELECT of get_setting and then parses *)
(* what it read; clear is one call of set_setting.                         *)
(***************************************************************************)
\* The arguments callers save: the list generated for a range, with its
\* sources.
SaveArgs(start, end, use_pantry) ==
    [op |-> "save",
     shopping_data |-> ResultDict(generate(DB, start, end, use_pantry).result,
                                  Len(SortedStoreNames)),
     ingredient_sources |-> get_ingredient_sources(DB, start, end),
     start_date |-> PyStr(DateText(start)), end_date |-> PyStr(DateText(end)),
     use_pantry |-> PyBool(use_pantry)]

\* Lines 238-245 up to the call of set_setting: payload and json.dumps.
SaveDump(p, start, end, use_pantry) ==
    /\ inflight.calls[p].pc \in {"idle", "done"}
    /\ LET a == SaveArgs(start, end, use_pantry)
       IN  inflight' =
               [inflight EXCEPT
                  !.calls[p] = [pc |-> "dumped", op |-> "save", args |-> a,
                                text |-> JsonText(Payload(a.shopping_data,
                                                          a.ingredient_sources,
                                                          a.start_date, a.end_date,
                                                          a.use_pantry))],
                  !.issued = @ \cup {a}]
    /\ UNCHANGED <<ret, prev, gen>>
    /\ UNCHANGED tables
    /\ UNCHANGED cache_vars

\* Variant: the upsert keeps the shopping_data of the bundle in the slot.
CommitText_merged(slot, call) ==
    IF slot.kind = "json"
    THEN [kind |-> "json",
          v |-> PySet(call.text.v, "shopping_data",
                      PyGet(slot.v, "shopping_data", PyDict(<<>>)))]
    ELSE call.text
\* INSERT ... ON CONFLICT(key) DO UPDATE SET value=excluded.value
CommitText(slot, call) == call.text

\* set_setting(_CACHE_KEY, text) of the save on connection p, committed.
SaveCommit(p) ==
    /\ inflight.calls[p].pc = "dumped"
    /\ cache' = CommitText(cache, inflight.calls[p])
    /\ saved' = inflight.calls[p].args
    /\ inflight' = [inflight EXCEPT !.calls[p].pc = "done"]
    /\ UNCHANGED <<ret, prev, gen>>
    /\ UNCHANGED tables

\* clear_cached_list() on connection p.
ClearCommit(p) ==
    /\ inflight.calls[p].pc \in {"idle", "done"}
    /\ cache' = EmptyText
    /\ saved' = NoCall
    /\ inflight' = [inflight EXCEPT !.calls[p] = [pc |-> "done", op |-> "clear"]]
    /\ UNCHANGED <<ret, prev, gen>>
    /\ UNCHANGED tables

\* Line 254: raw = get_setting(_CACHE_KEY) on connection p.
LoadRead(p) ==
    /\ inflight.calls[p].pc \in {"idle", "done"}
    /\ inflight' = [inflight EXCEPT !.calls[p] = [pc |-> "read", op |-> "load",
                                                  raw |-> cache]]
    /\ UNCHANGED <<ret, prev, gen>>
    /\ UNCHANGED tables
    /\ UNCHANGED cache_vars

\* Lines 255-274 on the text read.
LoadReturn(p) ==
    /\ inflight.calls[p].pc = "read"
    /\ inflight' = [inflight EXCEPT !.calls[p] =
                       [pc |-> "done", op |-> "load", raw |-> inflight.calls[p].raw,
                        result |-> load_cached_list(inflight.calls[p].raw)]]
    /\ UNCHANGED <<ret, prev, gen>>
    /\ UNCHANGED tables
    /\ UNCHANGED cache_vars

InitSlotRace ==
    /\ recipes = [id \in {1, 2} |-> IF id = 1 THEN RecipeA ELSE RecipeB]
    /\ meal_plan = << MealRow(1, s_Dinner, Some(1), 2, None),
                      MealRow(2, s_Lunch, Some(2), 1, Some("guests")) >>
    /\ stores = OneStore
    /\ pantry = << PantryItem(t_ab, Some(5000), None, Some(1)) >>
    /\ staples = << Staple(t_ef, Some(1), TRUE) >>
    /\ known_prices = <<>>
    /\ autoinc = [stores |-> 1, recipes |-> 2]
    /\ ret = NoCall
    /\ prev = NoCall
    /\ cache = NoSlot
    /\ saved = NoCall
    /\ gen = Idle
    /\ inflight = NoCalls

NextSlotRace ==
    \/ \E p \in Procs, start \in Days, use_pantry \in BOOLEAN :
          SaveDump(p, start, MaxDay, use_pantry)
    \/ \E p \in Procs : SaveCommit(p)
    \/ \E p \in Procs : ClearCommit(p)
    \/ \E p \in Procs : LoadRead(p)
    \/ \E p \in Procs : LoadReturn(p)

SpecSlotRace == InitSlotRace /\ [][NextSlotRace]_vars

(***************************************************************************)
(* The stores table and the rows that refer to it.                         *)
(***************************************************************************)
\* AUTOINCREMENT never reuses an id: the runs stop adding stores at this id.
MaxStoreId == 2
StoreNamesTwo == {"Aldi", "Lidl"}
\* A preferred store or store_id argument: NULL or an id.
StoreRefs == {None} \cup { Some(id) : id \in 1..MaxStoreId }

InitStores ==
    /\ recipes = NoRecipes
    /\ meal_plan = <<>>
    /\ stores = NoStores
    /\ pantry = <<>>
    /\ staples = <<>>
    /\ known_prices = <<>>
    /\ autoinc = [stores |-> 0, recipes |-> 0]
    /\ ret = NoCall
    /\ prev = NoCall
    /\ cache = NoSlot
    /\ saved = NoCall
    /\ gen = Idle
    /\ inflight = NoCalls

NextStores ==
    \/ \E name \in StoreNamesTwo : stores_add(name) /\ autoinc.stores < MaxStoreId
    \/ \E ref \in StoreRefs : pantry_add(PantryItem(t_ab, Some(5000), None, ref))
    \/ \E ref \in StoreRefs : staples_add(Staple(t_ef, ref, TRUE))
    \/ \E ref \in StoreRefs : known_prices_upsert_at(KnownArg(t_AB, 2500), ref)
    \/ \E id \in 1..MaxStoreId : stores_delete(id)

SpecStores == InitStores /\ [][NextStores]_vars

(***************************************************************************)
(* Properties.  `ret` is the return of the latest request, made on the     *)
(* current tables (every write clears it).                                 *)
(***************************************************************************)
Called == ret.op = "generate"

\* The places (meal-plan row, ingredient position) that contribute to a key
\* in the request's range.
Contributions(key) ==
    LET rows == { i \in 1..Len(meal_plan) :
                    /\ meal_plan[i].date >= ret.start
                    /\ meal_plan[i].date <= ret.end
                    /\ meal_plan[i].recipe_id # None
                    /\ Val(meal_plan[i].recipe_id) \in DOMAIN recipes }
    IN  UNION { { <<i, j>> : j \in { n \in 1..Len(recipes[Val(meal_plan[i].recipe_id)]) :
                                      IngKey(recipes[Val(meal_plan[i].recipe_id)][n]) = key } }
                : i \in rows }

ContributionOf(p) ==
    Val(EffQty(recipes[Val(meal_plan[p[1]].recipe_id)][p[2]])) * meal_plan[p[1]].servings

RECURSIVE SumContributions(_)
SumContributions(ps) ==
    IF ps = {} THEN 0
    ELSE LET p == CHOOSE x \in ps : TRUE
         IN  ContributionOf(p) + SumContributions(ps \ {p})

\* The keys of the ingredients of all recipes.
RecipeKeys ==
    UNION { { IngKey(recipes[r][j]) : j \in 1..Len(recipes[r]) } : r \in DOMAIN recipes }

\* C1: the demand of a key is the sum, over the entries of the inclusive
\* range that have a recipe and over the ingredients of that recipe that
\* normalize to the key, of effective quantity x servings; a key without
\* such an ingredient has no demand.
C1_DemandIsSum ==
    Called =>
        /\ \A i \in 1..Len(ret.required) :
              /\ Contributions(ret.required[i].k) # {}
              /\ ret.required[i].v = SumContributions(Contributions(ret.required[i].k))
        /\ \A key \in RecipeKeys :
              Contributions(key) # {} => DictHas(ret.required, key)

\* A recipe planned in two slots of the range, counted once per slot.
C1_Witness ==
    /\ Called
    /\ Len(meal_plan) = 2
    /\ meal_plan[1].recipe_id # None
    /\ meal_plan[1].recipe_id = meal_plan[2].recipe_id
    /\ \E i \in 1..Len(ret.required) :
          /\ Cardinality(Contributions(ret.required[i].k)) >= 3
          /\ ret.required[i].v > 0

\* The places (bucket, position) of the lines of a key: the display name is
\* the key's name in title case, the unit is the key's unit.
KeyPlaces(items, key) ==
    UNION { { <<st, i>> : i \in { n \in 1..Len(items[st]) :
                                    /\ Lower(items[st][n].name) = key[1]
                                    /\ items[st][n].unit = key[2] } }
            : st \in DOMAIN items }

\* The pantry quantity recorded for a normalized name: that of the last
\* pantry row of the name, 0 when there is none or its quantity is null.
OnHand(n) ==
    LET hits == { i \in 1..Len(pantry) : Norm(pantry[i].name) = n }
    IN  IF hits = {} THEN 0
        ELSE LET last == CHOOSE h \in hits : \A o \in hits : o <= h
             IN  IF pantry[last].quantity = None THEN 0 ELSE Val(pantry[last].quantity)

\* A staple of the name that is not flagged need-to-buy.
OnHandStaple(n) ==
    \E i \in 1..Len(staples) : ~staples[i].need_to_buy /\ Norm(staples[i].name) = n

\* C2 (amended): with use_pantry enabled, a key that is not an on-hand
\* staple has a line iff needed - on_hand(name) > 0; there is then exactly
\* one line, and its quantity is that difference rounded to two decimals.
C2_PantryOffset ==
    Called /\ ret.use_pantry =>
        \A i \in 1..Len(ret.required) :
            LET key == ret.required[i].k
                diff == ret.required[i].v - OnHand(key[1])
                places == KeyPlaces(ret.recipe_items, key)
            IN  ~OnHandStaple(key[1]) =>
                    IF diff > 0
                    THEN /\ Cardinality(places) = 1
                         /\ \A p \in places :
                               ret.recipe_items[p[1]][p[2]].qty = Round2(diff)
                    ELSE places = {}

\* C2 as stated: the quantity of the line is the difference itself.
C2_QuantityIsDifference ==
    Called /\ ret.use_pantry =>
        \A i \in 1..Len(ret.required) :
            LET key == ret.required[i].k
                diff == ret.required[i].v - OnHand(key[1])
                places == KeyPlaces(ret.recipe_items, key)
            IN  ~OnHandStaple(key[1]) /\ diff > 0 =>
                    \A p \in places : ret.recipe_items[p[1]][p[2]].qty = diff

\* One key is covered by the pantry and dropped, another is listed with
\* what the pantry lacks.
C2_Witness ==
    /\ Called
    /\ ret.use_pantry
    /\ \E i \in 1..Len(ret.required) :
          /\ ~OnHandStaple(ret.required[i].k[1])
          /\ ret.required[i].v > 0
          /\ ret.required[i].v <= OnHand(ret.required[i].k[1])
          /\ KeyPlaces(ret.result, ret.required[i].k) = {}
    /\ \E i \in 1..Len(ret.required) :
          /\ ret.required[i].v > OnHand(ret.required[i].k[1])
          /\ KeyPlaces(ret.result, ret.required[i].k) # {}

\* C3: a key whose name is that of a staple not flagged need-to-buy has no
\* recipe-driven line, under any unit, whatever the demand, the pantry and
\* the use_pantry flag.
C3_OnHandStapleSuppressed ==
    Called =>
        /\ \A i \in 1..Len(ret.required) :
              OnHandStaple(ret.required[i].k[1]) =>
                  KeyPlaces(ret.recipe_items, ret.required[i].k) = {}
        /\ \A l \in AllLines(ret.recipe_items) : ~OnHandStaple(Lower(l.name))

\* A demanded key that the pantry does not cover is suppressed by a staple,
\* while another key is listed.
C3_Witness ==
    /\ Called
    /\ ret.recipe_items # EmptyItems
    /\ \E i \in 1..Len(ret.required) :
          /\ OnHandStaple(ret.required[i].k[1])
          /\ ret.required[i].v > OnHand(ret.required[i].k[1])
          /\ KeyPlaces(ret.result, ret.required[i].k) = {}

\* The known price stored for a normalized name (that of the last row of
\* the name), None when there is none.
KnownPriceOf(n) ==
    LET hits == { i \in 1..Len(known_prices) : Norm(known_prices[i].item_name) = n }
    IN  IF hits = {} THEN None
        ELSE Some(known_prices[CHOOSE h \in hits : \A o \in hits : o <= h].unit_price)

\* The estimated price of the pantry item of a normalized name (the last
\* row of the name that has one), None when there is none.
PantryPriceOf(n) ==
    LET hits == { i \in 1..Len(pantry) :
                    Norm(pantry[i].name) = n /\ pantry[i].estimated_price # None }
    IN  IF hits = {} THEN None
        ELSE pantry[CHOOSE h \in hits : \A o \in hits : o <= h].estimated_price

\* The recipe price recorded for a key by the request.
RecipePriceOf(key) == DictGet(ret.ingredient_prices, key)

\* The unrounded quantity to buy of the i-th key of the request.
Owed(i) ==
    IF ret.use_pantry THEN ret.required[i].v - OnHand(ret.required[i].k[1])
    ELSE ret.required[i].v

\* C4: the cost of a recipe-driven line is computed from the known price of
\* the key's name if there is one, else from the recipe price recorded for
\* the (name, unit) key, else from the pantry item's price for the name;
\* the cost is absent exactly when none of the three exists.
C4_PriceCascade ==
    Called =>
        \A i \in 1..Len(ret.required) :
            LET key == ret.required[i].k
                price == IF KnownPriceOf(key[1]) # None THEN KnownPriceOf(key[1])
                         ELSE IF RecipePriceOf(key) # None THEN RecipePriceOf(key)
                         ELSE PantryPriceOf(key[1])
            IN  \A p \in KeyPlaces(ret.recipe_items, key) :
                    ret.recipe_items[p[1]][p[2]].cost =
                        IF price = None THEN None
                        ELSE Some(RoundCost(Val(price), Owed(i)))

\* A line priced by a known price although its key has a different recipe
\* price, and a line emitted without a cost.
C4_Witness ==
    /\ Called
    /\ \E i \in 1..Len(ret.required) :
          /\ KnownPriceOf(ret.required[i].k[1]) # None
          /\ RecipePriceOf(ret.required[i].k) # None
          /\ PantryPriceOf(ret.required[i].k[1]) # None
          /\ RoundCost(Val(KnownPriceOf(ret.required[i].k[1])), Owed(i))
                # RoundCost(Val(RecipePriceOf(ret.required[i].k)), Owed(i))
          /\ KeyPlaces(ret.result, ret.required[i].k) # {}
    /\ \E i \in 1..Len(ret.required) :
          \E p \in KeyPlaces(ret.result, ret.required[i].k) :
              ret.result[p[1]][p[2]].cost = None

\* Some entry of the request's range has a recipe with an ingredient.
DemandExists == \E key \in RecipeKeys : Contributions(key) # {}

\* The i-th staple is flagged need-to-buy and its normalized name is the
\* normalized display name of no line that precedes it: no recipe-driven
\* line and no staple added before it.
StapleDue(i) ==
    /\ staples[i].need_to_buy
    /\ \A l \in AllLines(ret.recipe_items) : Norm(l.name) # Norm(staples[i].name)
    /\ \A j \in 1..(i - 1) :
           staples[j].need_to_buy => Norm(staples[j].name) # Norm(staples[i].name)

\* The bucket of the i-th staple: its preferred store, else "Staples".
StapleBucket(i) ==
    IF staples[i].preferred_store_id # None
       /\ Val(staples[i].preferred_store_id) \in DOMAIN stores
    THEN stores[Val(staples[i].preferred_store_id)]
    ELSE StaplesBucket

\* The line of the i-th staple is in its bucket: name verbatim, quantity 0,
\* empty unit, the known price of its normalized name or no price.
StapleListed(i) ==
    /\ StapleBucket(i) \in DOMAIN ret.result
    /\ \E n \in 1..Len(ret.result[StapleBucket(i)]) :
          ret.result[StapleBucket(i)][n] =
              Line(staples[i].name, 0, t_empty, KnownPriceOf(Norm(staples[i].name)))

PantryMatches(n) == { i \in 1..Len(pantry) : Norm(pantry[i].name) = n }

\* The name of the preferred store of the i-th pantry row, else the
\* "No Store Assigned" bucket.
PantryBucket(i) ==
    IF pantry[i].preferred_store_id # None
       /\ Val(pantry[i].preferred_store_id) \in DOMAIN stores
    THEN stores[Val(pantry[i].preferred_store_id)]
    ELSE NoStoreAssigned

\* C6: a recipe-driven line is in the bucket of the preferred store of the
\* pantry item whose trimmed, lower-cased name is the key's name, and in
\* "No Store Assigned" when no pantry item matches or the item has no store
\* (stated for names that at most one pantry item matches).
C6_StoreOfMatchingPantryItem ==
    Called =>
        \A i \in 1..Len(ret.required) :
            \A p \in KeyPlaces(ret.recipe_items, ret.required[i].k) :
                LET hits == PantryMatches(ret.required[i].k[1])
                IN  /\ hits = {} => p[1] = NoStoreAssigned
                    /\ Cardinality(hits) = 1 =>
                          \A h \in hits : p[1] = PantryBucket(h)

\* The effective fields of an ingredient row as section 4.1 words them: the
\* shopping field when it is present (not null, not empty), else the raw
\* field; a missing quantity is 0, a missing unit the empty text.
PreferredName(ing) ==
    IF ing.shopping_name # None /\ Val(ing.shopping_name) # t_empty
    THEN Val(ing.shopping_name) ELSE ing.name
PreferredUnit(ing) ==
    IF ing.shopping_unit # None /\ Val(ing.shopping_unit) # t_empty
    THEN Val(ing.shopping_unit)
    ELSE IF ing.unit # None THEN Val(ing.unit) ELSE t_empty
PreferredQty(ing) ==
    IF ing.shopping_qty # None THEN Val(ing.shopping_qty)
    ELSE IF ing.quantity # None THEN Val(ing.quantity) ELSE 0
PreferredKey(ing) == << Strip(Lower(PreferredName(ing))), Strip(Lower(PreferredUnit(ing))) >>

\* The places (meal-plan row, ingredient position) the request aggregates.
RequestPlaces ==
    LET rows == { i \in 1..Len(meal_plan) :
                    /\ meal_plan[i].date >= ret.start
                    /\ meal_plan[i].date <= ret.end
                    /\ meal_plan[i].recipe_id # None
                    /\ Val(meal_plan[i].recipe_id) \in DOMAIN recipes }
    IN  UNION { { <<i, j>> : j \in 1..Len(recipes[Val(meal_plan[i].recipe_id)]) }
                : i \in rows }

IngredientAt(p) == recipes[Val(meal_plan[p[1]].recipe_id)][p[2]]

RECURSIVE SumPreferred(_)
SumPreferred(ps) ==
    IF ps = {} THEN 0
    ELSE LET p == CHOOSE x \in ps : TRUE
         IN  PreferredQty(IngredientAt(p)) * meal_plan[p[1]].servings
             + SumPreferred(ps \ {p})

\* C7: the request does not raise, and every aggregated ingredient counts
\* under the key of its preferred name and unit with its preferred
\* quantity: the demand of that key is the sum of preferred quantity x
\* servings over the ingredients of that key.
C7_EffectiveFields ==
    Called =>
        /\ ~ret.raised
        /\ \A p \in RequestPlaces :
              /\ DictHas(ret.required, PreferredKey(IngredientAt(p)))
              /\ Val(DictGet(ret.required, PreferredKey(IngredientAt(p)))) =
                    SumPreferred({ q \in RequestPlaces :
                        PreferredKey(IngredientAt(q)) = PreferredKey(IngredientAt(p)) })
        /\ \A i \in 1..Len(ret.required) :
              \E p \in RequestPlaces : PreferredKey(IngredientAt(p)) = ret.required[i].k

\* The request aggregates an ingredient whose shopping quantity 0 stands
\* against a non-zero raw quantity, one whose quantity is missing, and one
\* whose unit is missing.
C7_Witness ==
    /\ Called
    /\ \E p \in RequestPlaces :
          /\ IngredientAt(p).shopping_qty = Some(0)
          /\ IngredientAt(p).quantity # None
          /\ Val(IngredientAt(p).quantity) > 0
          /\ DictGet(ret.required, PreferredKey(IngredientAt(p))) = Some(0)
    /\ \E p \in RequestPlaces :
          IngredientAt(p).quantity = None /\ IngredientAt(p).shopping_qty = None
    /\ \E p \in RequestPlaces :
          IngredientAt(p).unit = None /\ IngredientAt(p).shopping_unit = None

\* The meal plan with every entry that has no recipe reference removed.
RecipeBackedPlan ==
    LET Backed(row) == row.recipe_id # None
    IN  SelectSeq(meal_plan, Backed)

\* C8: the request returns what it returns on the meal plan with every
\* recipe-less entry removed, all other tables being the same.
C8_NotesOnlyIgnored ==
    Called =>
        ret.result =
            generate(Database(stores, pantry, recipes, RecipeBackedPlan,
                              staples, known_prices),
                     ret.start, ret.end, ret.use_pantry).result

\* The range holds a notes-only entry and a recipe entry, and the list is
\* not empty.
C8_Witness ==
    /\ Called
    /\ ret.result # EmptyItems
    /\ \E i \in 1..Len(meal_plan) :
          /\ meal_plan[i].recipe_id = None
          /\ meal_plan[i].date >= ret.start
          /\ meal_plan[i].date <= ret.end
    /\ RequestPlaces # {}

\* No meal-plan entry has its date in the range of the request.
RangeIsEmpty ==
    \A i \in 1..Len(meal_plan) :
        ~(ret.start <= meal_plan[i].date /\ meal_plan[i].date <= ret.end)

C10_QuantityIsRoundedDemand ==
    Called =>
        \A i \in 1..Len(ret.required) :
            LET key == ret.required[i].k
                places == KeyPlaces(ret.recipe_items, key)
            IN  /\ \A p \in places :
                      ret.recipe_items[p[1]][p[2]].qty = Round2(Owed(i))
                /\ ret.use_pantry /\ places # {} => Owed(i) > 0
                /\ ~ret.use_pantry /\ ~OnHandStaple(key[1]) =>
                      Cardinality(places) = 1

\* C10 as stated: every recipe-driven line has a quantity > 0 and every
\* demand is > 0.
C10_QuantitiesPositive ==
    Called =>
        /\ \A l \in AllLines(ret.recipe_items) : l.qty > 0
        /\ \A i \in 1..Len(ret.required) : ret.required[i].v > 0

\* With use_pantry disabled, a key of demand 0 that is no staple is listed
\* with quantity 0 under its unit, next to a line of positive quantity.
C10_Witness ==
    /\ Called
    /\ ~ret.use_pantry
    /\ \E i \in 1..Len(ret.required) :
          /\ ret.required[i].v = 0
          /\ ret.required[i].k[2] # t_empty
          /\ \A j \in 1..Len(staples) :
                Norm(staples[j].name) # ret.required[i].k[1]
          /\ \E p \in KeyPlaces(ret.result, ret.required[i].k) :
                ret.result[p[1]][p[2]].qty = 0
    /\ \E l \in AllLines(ret.result) : l.qty > 0

\* C11: in every line of the result, recipe-driven or added for a staple,
\* the quantity and the cost (when present) are whole numbers of
\* hundredths.
C11_TwoDecimals ==
    Called =>
        \A l \in AllLines(ret.result) :
            /\ l.qty % 10 = 0
            /\ l.cost # None => Val(l.cost) % 10 = 0

\* C12: in every mapping returned, the lines of each bucket are in
\* ascending case-sensitive order of display name, buckets that received
\* staple lines and buckets made of staple lines included.
C12_BucketsSorted ==
    Called =>
        \A st \in DOMAIN ret.result :
            \A i \in 1..Len(ret.result[st]) : \A j \in 1..Len(ret.result[st]) :
                i < j => ~TextLess(ret.result[st][j].name, ret.result[st][i].name)

\* A bucket that holds only staple lines, added in an order that is not
\* the order of their names, and a bucket of several recipe-driven lines.
C12_Witness ==
    /\ Called
    /\ \E st \in DOMAIN ret.result :
          /\ st \notin DOMAIN ret.recipe_items
          /\ Len(ret.result[st]) >= 2
          /\ \E i \in 1..Len(staples) : \E j \in 1..Len(staples) :
                /\ i < j
                /\ StapleDue(i) /\ StapleDue(j)
                /\ StapleBucket(i) = st /\ StapleBucket(j) = st
                /\ TextLess(staples[j].name, staples[i].name)
    /\ \E st \in DOMAIN ret.recipe_items : Len(ret.recipe_items[st]) >= 1

Readers == {"generate", "sources", "format", "load"}
\* The requests of the module that write the slot.
SlotWriters == {"save", "clear"}

\* The text save_cached_list stored for the arguments recorded in `saved`.
SavedText ==
    JsonText(Payload(saved.shopping_data, saved.ingredient_sources,
                     saved.start_date, saved.end_date, saved.use_pantry))

\* C14: a step of generate, get_ingredient_sources, format_shopping_list or
\* load_cached_list leaves the meal plan, the recipe ingredients, the pantry,
\* the staples, the known prices, the stores and the cache slot as they
\* were; a step of save_cached_list or clear_cached_list changes no table,
\* only the slot.
C14_ReadersWriteNothing ==
    [][ /\ ret'.op \in Readers => UNCHANGED <<tables, cache>>
        /\ ret'.op \in SlotWriters => UNCHANGED tables ]_vars

\* A list was saved, then generated and formatted again: the slot still
\* holds the saved text.
C14_Witness ==
    /\ ret.op = "format"
    /\ saved.op = "save"
    /\ cache = SavedText
    /\ ret.result # <<>>

\* A load was made on the slot as the recorded save left it.
LoadedAfterSave == ret.op = "load" /\ saved.op = "save"

\* Every entry of a list of source entries has 6 elements.
AllSix(list) == \A j \in 1..Len(list.v) : Len(list.v[j].v) = 6

\* The field of the bundle a load returned.
LoadedField(key) == PyGet(ret.result.v, key, PyNone)

\* C18: save_cached_list(result, sources, start, end, use_pantry) followed
\* by load_cached_list() returns a bundle whose shopping_data is the saved
\* result (stores, line order, the four fields of each line, absent costs
\* absent), whose start_date, end_date and use_pantry are the saved ones,
\* and whose ingredient_sources agrees with the saved sources on every key
\* whose entries are 6-element tuples.
C18_RoundTrip ==
    LoadedAfterSave =>
        /\ ret.result.status = "ok"
        /\ ret.result.v.t = "dict"
        /\ LoadedField("shopping_data") = saved.shopping_data
        /\ LoadedField("start_date") = saved.start_date
        /\ LoadedField("end_date") = saved.end_date
        /\ LoadedField("use_pantry") = saved.use_pantry
        /\ \A i \in 1..Len(saved.ingredient_sources.v) :
              AllSix(saved.ingredient_sources.v[i].v) =>
                  PyGet(LoadedField("ingredient_sources"),
                        saved.ingredient_sources.v[i].k, PyNone)
                      = saved.ingredient_sources.v[i].v

\* A saved list with a priced line and an unpriced one in the same store,
\* and sources with one key of 5-element entries and one of 6-element
\* entries, was loaded.
C18_Witness ==
    /\ LoadedAfterSave
    /\ \E i \in 1..Len(saved.shopping_data.v) :
          LET ls == saved.shopping_data.v[i].v.v
          IN  /\ \E j \in 1..Len(ls) : ls[j].v[4] = PyNone
              /\ \E j \in 1..Len(ls) : ls[j].v[4] # PyNone
    /\ \E i \in 1..Len(saved.ingredient_sources.v) :
          ~AllSix(saved.ingredient_sources.v[i].v)
    /\ \E i \in 1..Len(saved.ingredient_sources.v) :
          /\ AllSix(saved.ingredient_sources.v[i].v)
          /\ Len(saved.ingredient_sources.v[i].v.v) = 2

\* A JSON object all of whose values are arrays.
ObjectOfLists(x) == x.t = "dict" /\ \A i \in 1..Len(x.v) : x.v[i].v.t = "list"

\* The slot holds a bundle of the expected structure.
WellFormedBundle(slot) ==
    /\ slot.kind = "json"
    /\ slot.v.t = "dict"
    /\ ObjectOfLists(PyGet(slot.v, "shopping_data", PyDict(<<>>)))
    /\ ObjectOfLists(PyGet(slot.v, "ingredient_sources", PyDict(<<>>)))

\* C19: load_cached_list returns None, and raises nothing, for every slot
\* that is not a well-formed bundle: no row, the empty text, a text that is
\* not JSON, JSON whose top level is an array or a scalar, JSON whose
\* shopping_data or ingredient_sources is not an object of lists.
C19_MalformedIsNone ==
    (ret.op = "load" /\ ~WellFormedBundle(ret.slot)) => ret.result = Ok(PyNone)

\* C20: in a bundle load_cached_list returns every retained source entry is
\* a 6-element tuple: a key with an entry of another arity at any position
\* has been discarded.
C20_RetainedAreSix ==
    (ret.op = "load" /\ ret.result.status = "ok" /\ ret.result.v # PyNone) =>
        \A i \in 1..Len(LoadedField("ingredient_sources").v) :
            AllSix(LoadedField("ingredient_sources").v[i].v)

(***************************************************************************)
(* The meal plan grid.                                                     *)
(***************************************************************************)
\* The rows of the meal plan for a (date, slot) pair.
RowsAt(mp, d, slot) == { i \in 1..Len(mp) : mp[i].date = d /\ mp[i].meal_slot = slot }

\* set_meal's has_content.
HasContent(args) == args.recipe_id # None \/ NotesTruthy(args.notes)

\* C16: after any sequence of set_meal and clear_meal calls made one after
\* another from an empty meal plan there is at most one entry per (date,
\* slot) pair, and a set_meal with content on an occupied pair leaves one
\* entry for the pair, holding the recipe, servings and notes given.
C16_OneEntryPerPair ==
    /\ \A d \in Days, slot \in SlotsUsed : Cardinality(RowsAt(meal_plan, d, slot)) <= 1
    /\ \A d \in Days, slot \in SlotsUsed, args \in SetMealArgs :
          (RowsAt(meal_plan, d, slot) # {} /\ HasContent(args)) =>
              LET after == SetMealRows(meal_plan, d, slot,
                                       args.recipe_id, args.servings, args.notes)
              IN  /\ Len(after) = Len(meal_plan)
                  /\ \A i \in RowsAt(after, d, slot) :
                        after[i] = MealRow(d, slot, args.recipe_id,
                                           args.servings, args.notes)
                  /\ \A i \in 1..Len(after) :
                        i \notin RowsAt(after, d, slot) => after[i] = meal_plan[i]

\* Two pairs of the same day are occupied, one by a recipe and one by a
\* notes-only entry.
C16_Witness ==
    /\ Len(meal_plan) = 2
    /\ meal_plan[1].date = meal_plan[2].date
    /\ \E i \in 1..2 : meal_plan[i].recipe_id = None
    /\ \E i \in 1..2 : meal_plan[i].recipe_id # None

\* C17: no entry of the meal plan has both its recipe reference absent and
\* its notes absent or empty, in any state reached through set_meal,
\* clear_meal and the deletion of recipes.
C17_NoEmptyEntry ==
    \A i \in 1..Len(meal_plan) :
        meal_plan[i].recipe_id # None \/ NotesTruthy(meal_plan[i].notes)

(***************************************************************************)
(* generate among concurrent writes.                                       *)
(***************************************************************************)
\* C15: when other requests commit writes while a generate call runs, what
\* the call returns is still what generate returns on one state of each
\* table among those the call has read from: one state of the staples for
\* exclusion and injection, one state of the pantry for on-hand quantity
\* and store, one state of the recipe ingredients for all entries.
C15_PointInTimeResult ==
    gen.pc = "done" =>
        \E rc \in gen.seen.recipes, pa \in gen.seen.pantry,
           st \in gen.seen.staples, kp \in gen.seen.known_prices :
            LET one == generate(Database(stores, pa, rc, meal_plan, st, kp),
                                gen.start, gen.end, gen.use_pantry)
            IN  one.raised = gen.raised /\ one.result = gen.result

(***************************************************************************)
(* The text of format_shopping_list.                                       *)
(***************************************************************************)
\* A list was formatted and is not empty.
Formatted == ret.op = "format" /\ DOMAIN ret.shopping_list # {}

\* The lines of the text that belong to the section of a store: those after
\* its header and before the next header or the total.
SectionOf(out, st) ==
    { j \in 1..Len(out) :
        \E h \in 1..(j - 1) :
            /\ out[h].kind = "store" /\ out[h].text = st
            /\ \A k \in (h + 1)..j : out[k].kind \notin {"store", "total"} }

\* The lines of a kind in a set of lines.
OfKind(out, S, kind) == { j \in S : out[j].kind = kind }

\* The lines of a bucket that have a cost.
Priced(ls) == { i \in 1..Len(ls) : ls[i].cost # None }

\* The sum of the costs of the lines S of a bucket.
RECURSIVE CostOver(_, _)
CostOver(ls, S) ==
    IF S = {} THEN 0
    ELSE LET i == CHOOSE x \in S : TRUE
         IN  Val(ls[i].cost) + CostOver(ls, S \ {i})

\* The sum of the present costs of the buckets T.
RECURSIVE CostOfStores(_, _)
CostOfStores(sl, T) ==
    IF T = {} THEN 0
    ELSE LET st == CHOOSE x \in T : TRUE
         IN  CostOver(sl[st], Priced(sl[st])) + CostOfStores(sl, T \ {st})

\* C21: in the text of format_shopping_list a store section has a subtotal
\* line exactly when one of the store's lines has a cost, and the subtotal
\* is the sum of the store's present costs (printed with two decimals); the
\* estimated-total line is present exactly when some store has a subtotal,
\* and it is the sum of all present costs.
C21_SubtotalsAndTotal ==
    Formatted =>
        LET sl == ret.shopping_list
            out == ret.result
            totals == OfKind(out, 1..Len(out), "total")
        IN  /\ \A st \in DOMAIN sl :
                  LET subs == OfKind(out, SectionOf(out, st), "subtotal")
                  IN  /\ (subs # {}) <=> (Priced(sl[st]) # {})
                      /\ Cardinality(subs) <= 1
                      /\ \A j \in subs :
                            out[j].amount = Some(Cents(CostOver(sl[st], Priced(sl[st]))))
            /\ (totals # {}) <=> (\E st \in DOMAIN sl : Priced(sl[st]) # {})
            /\ Cardinality(totals) <= 1
            /\ \A j \in totals :
                  /\ j = Len(out)
                  /\ out[j].amount = Some(Cents(CostOfStores(sl, DOMAIN sl)))

\* A text with a store that has a subtotal, a store that has none, and a
\* total made of more than one cost.
C21_Witness ==
    /\ Formatted
    /\ \E st \in DOMAIN ret.shopping_list : Priced(ret.shopping_list[st]) = {}
    /\ \E st \in DOMAIN ret.shopping_list : Cardinality(Priced(ret.shopping_list[st])) >= 2
    /\ OfKind(ret.result, 1..Len(ret.result), "total") # {}

(***************************************************************************)
(* The price book.                                                         *)
(***************************************************************************)
\* The rows of known_prices that generate files under a normalized name.
Candidates(name) ==
    { i \in 1..Len(known_prices) : Norm(known_prices[i].item_name) = name }

\* C22: after any sequence of upsert, bulk_upsert and delete calls no two
\* rows of known_prices have names that are equal ignoring letter case and
\* surrounding whitespace: generate's lookup of a normalized name has one
\* candidate.
C22_OneRowPerName ==
    \A i \in 1..Len(known_prices) :
        Candidates(Norm(known_prices[i].item_name)) = {i}

(***************************************************************************)
(* set_meal on two connections.                                            *)
(***************************************************************************)
\* Both connections have finished a set_meal with content for the same
\* pair, each having found the pair empty.
BothInserted ==
    /\ \A p \in Procs :
          /\ inflight.calls[p].pc = "done"
          /\ inflight.calls[p].op = "set_meal"
          /\ ~inflight.calls[p].existing
          /\ HasContent(inflight.calls[p].args)
    /\ inflight.calls[1].date = inflight.calls[2].date
    /\ inflight.calls[1].slot = inflight.calls[2].slot

\* C23: when two set_meal calls for the same empty (date, slot) run on
\* separate connections, each checking before the other has committed,
\* the meal plan has exactly one entry for the pair once both have
\* finished, holding the values of one of the two calls.
C23_OneEntryAfterRace ==
    BothInserted =>
        LET rows == RowsAt(meal_plan, inflight.calls[1].date, inflight.calls[1].slot)
        IN  /\ Cardinality(rows) = 1
            /\ \A i \in rows : \E p \in Procs :
                  meal_plan[i] = MealRow(inflight.calls[p].date, inflight.calls[p].slot,
                                         inflight.calls[p].args.recipe_id,
                                         inflight.calls[p].args.servings,
                                         inflight.calls[p].args.notes)

(***************************************************************************)
(* The cache slot on two connections.                                      *)
(***************************************************************************)
\* The load on connection p has returned a bundle.
ReturnedBundle(p) ==
    /\ inflight.calls[p].pc = "done"
    /\ inflight.calls[p].op = "load"
    /\ inflight.calls[p].result.status = "ok"
    /\ inflight.calls[p].result.v # PyNone

\* The bundle is the one save call `a` wrote.
BundleOf(bundle, a) ==
    /\ PyGet(bundle, "shopping_data", PyNone) = a.shopping_data
    /\ PyGet(bundle, "ingredient_sources", PyNone) = a.ingredient_sources
    /\ PyGet(bundle, "start_date", PyNone) = a.start_date
    /\ PyGet(bundle, "end_date", PyNone) = a.end_date
    /\ PyGet(bundle, "use_pantry", PyNone) = a.use_pantry

\* No call is in progress.
AllFinished == \A p \in Procs : inflight.calls[p].pc \in {"idle", "done"}

\* C24: under any interleaving of save, clear and load calls, a load
\* returns None or raises nothing else than what a single save call wrote:
\* every bundle returned has its five fields from one save call; and once
\* all calls have finished the slot holds the text of the write that was
\* committed last.
C24_LastWriterWins ==
    /\ \A p \in Procs :
          /\ (inflight.calls[p].pc = "done" /\ inflight.calls[p].op = "load")
                => inflight.calls[p].result.status = "ok"
          /\ ReturnedBundle(p) =>
                \E a \in inflight.issued : BundleOf(inflight.calls[p].result.v, a)
    /\ AllFinished =>
          IF saved = NoCall THEN cache \in {NoSlot, EmptyText} ELSE cache = SavedText

\* A load has returned the bundle of one save while the slot already holds
\* the text of another save, committed after the load had read.
C24_Witness ==
    /\ AllFinished
    /\ saved # NoCall
    /\ \E p \in Procs :
          /\ ReturnedBundle(p)
          /\ ~BundleOf(inflight.calls[p].result.v, saved)
    /\ Cardinality(inflight.issued) >= 2

(***************************************************************************)
(* The recipe price of a key.                                              *)
(***************************************************************************)
\* The contributions to a key that carry a price.
PricedPlaces(key) ==
    { p \in Contributions(key) : IngredientAt(p).estimated_price # None }

\* Place p is read before place q: its entry comes first by date, then by
\* meal-slot name; within an entry, by ingredient position.
ReadBefore(p, q) ==
    \/ meal_plan[p[1]].date < meal_plan[q[1]].date
    \/ /\ meal_plan[p[1]].date = meal_plan[q[1]].date
       /\ TextLess(meal_plan[p[1]].meal_slot, meal_plan[q[1]].meal_slot)
    \/ p[1] = q[1] /\ p[2] < q[2]

\* The first of a non-empty set of places.
FirstPlace(ps) == CHOOSE p \in ps : \A q \in ps \ {p} : ReadBefore(p, q)

\* C25: the recipe price recorded for a key is the estimated price of the
\* first ingredient with a non-null price for the key, entries taken by
\* ascending date and then meal-slot name and ingredients in the order
\* they are read; later ingredients do not overwrite it, earlier ones
\* without a price do not block it; a key with no priced ingredient has no
\* recipe price.
C25_FirstPriceWins ==
    (Called /\ ~ret.raised /\ ret.required # <<>>) =>
        \A key \in RecipeKeys :
            IF PricedPlaces(key) = {}
            THEN RecipePriceOf(key) = None
            ELSE RecipePriceOf(key)
                   = IngredientAt(FirstPlace(PricedPlaces(key))).estimated_price

\* A key has two differently priced ingredients in two entries, the entry
\* read first being the later row of the table, and an unpriced ingredient
\* is read before the first priced one.
C25_Witness ==
    /\ Called /\ ~ret.raised /\ ret.required # <<>>
    /\ \E key \in RecipeKeys :
          \E p, q \in PricedPlaces(key) :
              /\ p = FirstPlace(PricedPlaces(key))
              /\ p[1] > q[1]
              /\ IngredientAt(p).estimated_price # IngredientAt(q).estimated_price
    /\ \E key \in RecipeKeys :
          \E u \in Contributions(key) \ PricedPlaces(key) :
              /\ PricedPlaces(key) # {}
              /\ ReadBefore(u, FirstPlace(PricedPlaces(key)))

(***************************************************************************)
(* Injected staples and the lines already listed.                          *)
(***************************************************************************)
\* The positions (bucket, index) of the lines of a mapping.
Positions(items) ==
    UNION { { <<st, i>> : i \in 1..Len(items[st]) } : st \in DOMAIN items }

\* The lines the staple pass added: those of the result that the recipe
\* loop had not emitted.
Injected == { l \in AllLines(ret.result) : l \notin AllLines(ret.recipe_items) }

\* The positions of the result whose name normalizes to `name`.
NamedLike(name) ==
    { p \in Positions(ret.result) : Norm(ret.result[p[1]][p[2]].name) = name }

\* C26: the result never holds an injected staple line whose trimmed
\* lower-cased name is also the lower-cased name of another line, in any
\* bucket and whatever the units: a needed staple with an emitted recipe
\* line is not added, and two needed staples whose names normalize to the
\* same string give one line.
C26_NoDuplicateStaple ==
    (Called /\ ~ret.raised) =>
        \A l \in Injected :
            /\ l.qty = 0
            /\ Cardinality(NamedLike(Norm(l.name))) = 1

\* Two needed staples normalize to the same name and a line was injected
\* for them.
C26_Witness ==
    /\ Called /\ ~ret.raised
    /\ \E i, j \in 1..Len(staples) :
          /\ i # j
          /\ staples[i].need_to_buy /\ staples[j].need_to_buy
          /\ Norm(staples[i].name) = Norm(staples[j].name)
          /\ \E l \in Injected : Norm(l.name) = Norm(staples[i].name)

(***************************************************************************)
(* The representation an aggregated quantity and its unit come from.       *)
(***************************************************************************)
\* (ing["unit"] or "").lower().strip(): the unit of the raw representation.
RawUnitOf(ing) == IF TextTruthy(ing.unit) THEN Norm(Val(ing.unit)) ELSE t_empty

\* C27: the quantity and the unit an ingredient's demand is aggregated
\* under come from the same representation: an ingredient whose normalized
\* shopping quantity is summed is summed under its shopping unit, and one
\* whose raw quantity is summed is summed under its raw unit.
C27_SameRepresentation ==
    (Called /\ ~ret.raised) =>
        \A i \in 1..Len(ret.required) :
            \A p \in Contributions(ret.required[i].k) :
                LET ing == IngredientAt(p)
                    unit == ret.required[i].k[2]
                IN  IF ing.shopping_qty # None
                    THEN ing.shopping_unit # None /\ unit = Norm(Val(ing.shopping_unit))
                    ELSE unit = RawUnitOf(ing)

(***************************************************************************)
(* Several pantry rows of one normalized name.                             *)
(***************************************************************************)
RECURSIVE SumQuantities(_)
SumQuantities(rows) ==
    IF rows = {} THEN 0
    ELSE LET i == CHOOSE x \in rows : TRUE
         IN  (IF pantry[i].quantity = None THEN 0 ELSE Val(pantry[i].quantity))
             + SumQuantities(rows \ {i})

\* The total of the quantities of the pantry rows of a normalized name.
TotalOnHand(n) == SumQuantities(PantryMatches(n))

\* C28: when several pantry rows have the same normalized name, the
\* on-hand quantity generate subtracts for the name is the total of the
\* quantities of those rows: a key that is not an on-hand staple is listed
\* iff its demand exceeds that total, with the rounded difference.
C28_OnHandIsTotal ==
    (Called /\ ~ret.raised /\ ret.use_pantry) =>
        \A i \in 1..Len(ret.required) :
            LET key == ret.required[i].k
                diff == ret.required[i].v - TotalOnHand(key[1])
                places == KeyPlaces(ret.recipe_items, key)
            IN  ~OnHandStaple(key[1]) =>
                    IF diff > 0
                    THEN \A p \in places :
                             ret.recipe_items[p[1]][p[2]].qty = Round2(diff)
                    ELSE places = {}

(***************************************************************************)
(* The injected staple lines in the text of format_shopping_list.          *)
(***************************************************************************)
\* The places (bucket, position) of a formatted mapping that hold the line
\* of a needed staple: the staple's name verbatim, quantity 0, no unit.
StapleLinePlaces(sl) ==
    { p \in Positions(sl) :
        /\ sl[p[1]][p[2]].qty = 0
        /\ sl[p[1]][p[2]].unit = t_empty
        /\ \E i \in 1..Len(staples) :
              staples[i].need_to_buy /\ staples[i].name = sl[p[1]][p[2]].name }

\* The line of the text printed for the i-th line of the bucket st.
ItemLineOf(out, st, i) ==
    { j \in OfKind(out, SectionOf(out, st), "item") :
        Cardinality(OfKind(out, SectionOf(out, st) \cap (1..j), "item")) = i }

DeletedExisting == ret.op = "stores_delete" /\ ret.existed

\* C30: stores.delete(store_id) succeeds for every existing store whatever
\* rows reference it: the call does not raise, the store is gone, every
\* pantry item that referred to it has no preferred store, and no staple
\* or known price still refers to it.
C30_DeleteAlwaysSucceeds ==
    DeletedExisting =>
        /\ ~ret.raised
        /\ ret.store_id \notin DOMAIN stores
        /\ Len(pantry) = Len(ret.pantry_before)
        /\ \A i \in 1..Len(pantry) :
              ret.pantry_before[i].preferred_store_id = Some(ret.store_id)
                  => pantry[i].preferred_store_id = None
        /\ ~StillReferenced(ret.store_id)

====
